---- MODULE Spec2Model ----
(***************************************************************************)
(* Model of the THE World University Rankings scrapers.                    *)
(*                                                                         *)
(*   Spec      one call of the_scraper.scrape_year: interactive capture,   *)
(*             scrape_with_network_monitoring (network capture, page       *)
(*             inspection, endpoint probe), HTML fallback, limit.          *)
(*   SpecMain  the_scraper.main: the loop over the requested years and the *)
(*             run summary.                                                *)
(*   SpecFull  the_university_rankings_full.run_interactive: the loops     *)
(*             over years, tables and subjects.                            *)
(*   SpecCapture    the_scraper.extract_ajax_requests: the filter over the *)
(*             performance log, and the loop over what it returns.         *)
(*   SpecRequest    one entry of ajax_requests through the loop body of    *)
(*             scrape_with_network_monitoring.                             *)
(*   SpecRelevance  api_discovery_test.THEAPIDiscovery._is_ranking_data.   *)
(*   SpecParse      the_scraper.parse_datatable_json and                   *)
(*             extract_data_from_doubleclick on one body.                  *)
(*   SpecTable      a table built from a rendered HTML table               *)
(*             (extract_from_current_dom, fallback_html_scraping,          *)
(*             inspect_page_sources).                                      *)
(*   SpecFilter     the_university_rankings_full.filter_data_for_db.       *)
(*   SpecExport     save_outputs followed by                               *)
(*             db_insert_generator.process_csv_files.                      *)
(*   SpecProbe      the_scraper.try_api_patterns, request by request.      *)
(*   SpecClean      db_insert_generator.clean_value.                       *)
(*   SpecDiscovery  api_discovery_test.THEAPIDiscovery.run_full_discovery. *)
(*                                                                         *)
(* A table (pandas DataFrame) is a record: its row count, the relevance    *)
(* of its content (count of domain keywords), the capture source that      *)
(* produced it and the exchange it came from.  None is NoneDF (rows = -1). *)
(***************************************************************************)
EXTENDS Integers, Sequences, FiniteSets, TLC

\* ------------------------------------------------------------------------
\* Bounds of the model
\* ------------------------------------------------------------------------

\* Largest number of exchanges that extract_ajax_requests hands to the loop.
MaxReqs == 2

\* Largest number of years in the_scraper's --years list.
MaxYears == 2

\* Largest number of years given to run_interactive.
MaxFullYears == 2

\* Largest number of performance-log entries extract_ajax_requests reads.
MaxLogs == 2

\* Largest number of words in the content given to _is_ranking_data.
MaxWords == 3

\* Largest number of elements of a JSON list and of keys of a JSON object
\* in the bodies given to parse_datatable_json.
MaxItems == 2
MaxKeys == 2

\* Largest number of runs of <tr> in a rendered HTML table, and largest
\* number of cells in a <tr>.
MaxTrs == 3
MaxCells == 3

\* Largest number of records in the document given to filter_data_for_db.
MaxRecords == 2

\* Largest number of save_outputs calls before the INSERT generator runs.
MaxUnits == 2

\* Largest number of characters of a value given to clean_value.
MaxChars == 5

\* Largest number of endpoints a phase of run_full_discovery tests.
MaxProbes == 2

\* ------------------------------------------------------------------------
\* Program constants
\* ------------------------------------------------------------------------

YEAR_LIMITS == (2024 :> 2671) @@ (2025 :> 2855) @@ (2026 :> 2191)

\* YEAR_LIMITS.get(year, 1000)
DefaultExpected == 1000

\* Variant: no expectation for a year that YEAR_LIMITS does not list.
ExpectedRowsKnownOnly(y) == IF y \in DOMAIN YEAR_LIMITS THEN YEAR_LIMITS[y] ELSE 0

ExpectedRows(y) == IF y \in DOMAIN YEAR_LIMITS THEN YEAR_LIMITS[y] ELSE DefaultExpected

\* len(df) > 10: floor of a table parsed from a network exchange.
MinRows == 10
\* len(df) > 50: floor of the JS-bundle path and of the endpoint probe.
MinPageRows == 50
\* len(body) < 100: bodies skipped in the loop.
MinBodyLen == 100
\* len(body) < 500: bodies never treated as ad-delivery data.
MinAdBodyLen == 500
\* len(df) < 50: scrape_year falls back to the HTML table.
FallbackBelow == 50

\* ------------------------------------------------------------------------
\* Inputs
\* ------------------------------------------------------------------------

\* 2023 is not a key of YEAR_LIMITS.
Years == {2023, 2024}

\* --limit: 0 stands for None (and for 0, both falsy in `if limit`).
Limits == {0, 1, -1}

\* Kinds of an entry of ajax_requests: a JSON endpoint, a response served
\* with a javascript mime type, an ad-delivery URL.
ReqKinds == {"ajax", "js", "ad"}

\* Row counts parse_datatable_json reports for a body (-1 is None): for a
\* JSON or ad-delivery body, and for a match inside a JavaScript bundle.
ParseRows == {-1, 10, 11, 1335, 1336}
JsParseRows == {-1, 50, 51}

\* Response bodies: length, number of domain keywords present (counted in
\* the order 'university', 'rank', 'score': 2 or more means that both
\* 'university' and 'rank' occur), rows of parse_datatable_json(body), and
\* rows found by the JSONP or embedded-JSON steps of
\* extract_data_from_doubleclick.
BodiesOf(kind) ==
    [len : {0, 99, 100, 500}, kw : 0..3,
     rows : IF kind = "js" THEN JsParseRows ELSE ParseRows, emb : {-1, 11}]

\* What inspect_page_sources meets: an exception outside the per-script
\* handler, the rows of the first list of more than 50 records found in a
\* script tag (-1: none), the number of <tr> in the <tbody> of the first HTML
\* table that has more than 50 of them (0: no such table), and how many of
\* these <tr> hold no cell.
ScriptRows == {-1, 500, 1336}
TableTrs == {0, 51, 500, 1336}
BlankTrs == {0, 1, 50}
PageOutcomes == [exc : BOOLEAN, script : ScriptRows, trs : TableTrs, blank : BlankTrs]

\* Outcomes of try_api_patterns as its caller sees them: whether a request
\* raised (caught inside the loop), and the table of the first endpoint that
\* answered 200 with more than 50 rows (-1: None, no endpoint did).
ApiOutcomes == [exc : BOOLEAN, rows : {-1, 51, 1336}]

\* Results of interactive_scroll_mode and of fallback_html_scraping.
InteractiveRows == {-1, 1, 49, 50}
FallbackRows == {-1, 1, 60}

NoneDF == [rows |-> -1, rel |-> 0, prov |-> "none", url |-> 0]
IsNone(d) == d.rows = -1
Table(n, r, p, u) == [rows |-> n, rel |-> r, prov |-> p, url |-> u]

SeqsUpTo(S, n) == UNION {[1..k -> S] : k \in 0..n}

Max2(a, b) == IF a >= b THEN a ELSE b

VARIABLES
    \* scrape_year
    year, limit, interactive_scroll, pc, df, endpoints, outcome,
    \* scrape_with_network_monitoring
    ajax_requests, req_idx, all_dataframes, api_endpoints, doubleclick_found,
    best_df, page_df, api_df,
    \* history of the query
    invoked, threw, net_best, insp_best, produced_max, chosen,
    \* the_scraper.main
    years, mpc, year_i, overall_counts, driver, attempted, marks,
    \* the_university_rankings_full.run_interactive
    mode, full_years, subject_slugs, fpc, unit_i, saved,
    \* the_scraper.extract_ajax_requests and the loop over its result
    logs, captured, cpc, entry_outcomes, body_idx, loop_tables, no_body,
    \* api_discovery_test.THEAPIDiscovery._is_ranking_data
    ranking_data, matches, is_ranking, rpc,
    \* the_scraper.parse_datatable_json, extract_data_from_doubleclick
    json_data, verbose, parsed, extracted, ppc,
    \* one entry of ajax_requests in scrape_with_network_monitoring
    req_kind, req_body, req_table, qpc,
    \* the_scraper: a table built from a rendered HTML table
    html_src, html_headers, html_rows, html_df, hpc,
    \* the_university_rankings_full.filter_data_for_db
    api_data, data_year, field_mapping, filtered_data, fdpc,
    \* save_outputs and db_insert_generator.process_csv_files
    out_units, out_i, csv_files, all_sql, xpc,
    \* the_scraper.try_api_patterns
    probe_answers, probe_i, requested, probe_df, bpc,
    \* db_insert_generator.clean_value
    raw_value, sql_value, vpc,
    \* api_discovery_test.THEAPIDiscovery.run_full_discovery
    rest_apis, graphql_apis, page_source_apis, summary, detected, working, dpc

main_vars == <<years, mpc, year_i, overall_counts, driver, attempted, marks>>

full_vars == <<mode, full_years, subject_slugs, fpc, unit_i, saved>>

capture_vars == <<logs, captured, cpc, entry_outcomes, body_idx, loop_tables, no_body>>

relevance_vars == <<ranking_data, matches, is_ranking, rpc>>

parse_vars == <<json_data, verbose, parsed, extracted, ppc>>

request_vars == <<req_kind, req_body, req_table, qpc>>

table_vars == <<html_src, html_headers, html_rows, html_df, hpc>>

filter_vars == <<api_data, data_year, field_mapping, filtered_data, fdpc>>

export_vars == <<out_units, out_i, csv_files, all_sql, xpc>>

probe_vars == <<probe_answers, probe_i, requested, probe_df, bpc>>

clean_vars == <<raw_value, sql_value, vpc>>

discovery_vars == <<rest_apis, graphql_apis, page_source_apis, summary, detected,
                    working, dpc>>

late_vars == <<table_vars, filter_vars, export_vars, probe_vars, clean_vars,
               discovery_vars>>

aux_vars == <<capture_vars, relevance_vars, parse_vars, request_vars, late_vars>>

batch_vars == <<main_vars, full_vars, aux_vars>>

query_vars == <<year, limit, interactive_scroll, pc, df, endpoints, outcome,
          ajax_requests, req_idx, all_dataframes, api_endpoints, doubleclick_found,
          best_df, page_df, api_df,
          invoked, threw, net_best, insp_best, produced_max, chosen>>

vars == <<query_vars, main_vars, full_vars, aux_vars>>

snm_locals == <<ajax_requests, req_idx, all_dataframes, api_endpoints, doubleclick_found,
                best_df, page_df, api_df>>

history == <<invoked, threw, net_best, insp_best, produced_max, chosen>>

\* ------------------------------------------------------------------------
\* scrape_with_network_monitoring: helpers
\* ------------------------------------------------------------------------

\* Variant: the factor 0.5 forgotten.
InsufficientNoHalf(n, expected) == n < expected

\* len(best_df) < expected_rows * 0.5
Insufficient(n, expected) == 2 * n < expected

\* Variant: a later strategy's table always replaces the best one.
BetterAlways(new, best) == TRUE

\* len(page_df) > len(best_df)
Better(new, best) == new > best

\* Variant: the last table of maximal length (a scan with >=).
BestOfLast(s) ==
    LET m == CHOOSE n \in {s[i].rows : i \in DOMAIN s} :
                 \A i \in DOMAIN s : s[i].rows <= n
        k == CHOOSE i \in DOMAIN s :
                 s[i].rows = m /\ \A j \in DOMAIN s : s[j].rows = m => i >= j
    IN s[k]

\* Variant: the first accepted table, whatever its length.
BestOfHead(s) == s[1]

\* max(all_dataframes, key=len): the first table of maximal length.
BestOf(s) ==
    LET m == CHOOSE n \in {s[i].rows : i \in DOMAIN s} :
                 \A i \in DOMAIN s : s[i].rows <= n
        k == CHOOSE i \in DOMAIN s :
                 s[i].rows = m /\ \A j \in DOMAIN s : s[j].rows = m => i <= j
    IN s[k]

\* is_doubleclick_data(url, body) for an entry with an ad-delivery URL.
IsDoubleclickData(kind, body) ==
    /\ body.len > 0
    /\ kind = "ad"
    /\ body.len >= MinAdBodyLen
    /\ body.kw >= 1

\* extract_data_from_doubleclick(body): the direct parse when the body is
\* JSON, else what the JSONP and embedded-JSON steps find.
ExtractDoubleclick(body) == IF body.rows # -1 THEN body.rows ELSE body.emb

\* One iteration of `for idx, req in enumerate(ajax_requests)`: the table
\* appended to all_dataframes (NoneDF when none is) and the label appended
\* to api_endpoints.
RequestTable(kind, idx, body) ==
    IF body.len = 0 \/ body.len < MinBodyLen THEN NoneDF
    ELSE IF kind = "js"
         THEN IF body.kw >= 2 /\ body.rows > MinPageRows
              THEN Table(body.rows, body.kw, "js", idx) ELSE NoneDF
    ELSE IF IsDoubleclickData(kind, body) /\ ExtractDoubleclick(body) > MinRows
         THEN Table(ExtractDoubleclick(body), body.kw, "ad", idx)
    ELSE IF body.rows > MinRows
         THEN Table(body.rows, body.kw, "ajax", idx)
    ELSE NoneDF

EndpointLabel(t) ==
    [tag |-> IF t.prov = "js" THEN "[JS_BUNDLE]"
             ELSE IF t.prov = "ad" THEN "[DOUBLECLICK]" ELSE "",
     url |-> t.url]

\* ------------------------------------------------------------------------
\* Init
\* ------------------------------------------------------------------------

InitLocals ==
    /\ ajax_requests = <<>>
    /\ req_idx = 0
    /\ all_dataframes = <<>>
    /\ api_endpoints = <<>>
    /\ doubleclick_found = FALSE
    /\ best_df = NoneDF
    /\ page_df = NoneDF
    /\ api_df = NoneDF

\* the_scraper.main not running.
MainIdle ==
    /\ years = <<>>
    /\ mpc = "idle"
    /\ year_i = 0
    /\ overall_counts = <<>>
    /\ driver = "none"
    /\ attempted = <<>>
    /\ marks = <<>>

\* the_university_rankings_full not running.
FullIdle ==
    /\ mode = "none"
    /\ full_years = <<>>
    /\ subject_slugs = <<>>
    /\ fpc = "idle"
    /\ unit_i = 0
    /\ saved = <<>>

\* extract_ajax_requests not running.
CaptureIdle ==
    /\ logs = <<>>
    /\ captured = <<>>
    /\ cpc = "idle"
    /\ entry_outcomes = <<>>
    /\ body_idx = 0
    /\ loop_tables = <<>>
    /\ no_body = 0

\* _is_ranking_data not running.
RelevanceIdle ==
    /\ ranking_data = <<>>
    /\ matches = 0
    /\ is_ranking = FALSE
    /\ rpc = "idle"

\* The parsers not running.
ParseIdle ==
    /\ json_data = <<>>
    /\ verbose = FALSE
    /\ parsed = <<>>
    /\ extracted = <<>>
    /\ ppc = "idle"

\* No single request being handled.
RequestIdle ==
    /\ req_kind = ""
    /\ req_body = <<>>
    /\ req_table = <<>>
    /\ qpc = "idle"

\* No HTML table being read.
TableIdle ==
    /\ html_src = ""
    /\ html_headers = 0
    /\ html_rows = <<>>
    /\ html_df = <<>>
    /\ hpc = "idle"

\* filter_data_for_db not running.
FilterIdle ==
    /\ api_data = <<>>
    /\ data_year = 0
    /\ field_mapping = <<>>
    /\ filtered_data = <<>>
    /\ fdpc = "idle"

\* Neither save_outputs nor process_csv_files running.
ExportIdle ==
    /\ out_units = <<>>
    /\ out_i = 0
    /\ csv_files = {}
    /\ all_sql = <<>>
    /\ xpc = "idle"

\* try_api_patterns not running.
ProbeIdle ==
    /\ probe_answers = <<>>
    /\ probe_i = 0
    /\ requested = <<>>
    /\ probe_df = -1
    /\ bpc = "idle"

\* clean_value not running.
CleanIdle ==
    /\ raw_value = <<>>
    /\ sql_value = <<>>
    /\ vpc = "idle"

\* run_full_discovery not running.
DiscoveryIdle ==
    /\ rest_apis = <<>>
    /\ graphql_apis = <<>>
    /\ page_source_apis = <<>>
    /\ summary = <<>>
    /\ detected = FALSE
    /\ working = 0
    /\ dpc = "idle"

LateIdle ==
    /\ TableIdle /\ FilterIdle /\ ExportIdle
    /\ ProbeIdle /\ CleanIdle /\ DiscoveryIdle

AuxIdle == CaptureIdle /\ RelevanceIdle /\ ParseIdle /\ RequestIdle /\ LateIdle

\* No query running.
QueryIdle ==
    /\ year = 0
    /\ limit = 0
    /\ interactive_scroll = FALSE
    /\ pc = "idle"
    /\ df = NoneDF
    /\ endpoints = <<>>
    /\ outcome = "idle"
    /\ InitLocals
    /\ invoked = <<>>
    /\ threw = {}
    /\ net_best = -2
    /\ insp_best = -2
    /\ produced_max = -1
    /\ chosen = NoneDF

Init ==
    /\ MainIdle
    /\ FullIdle
    /\ AuxIdle
    /\ year \in Years
    /\ limit \in Limits
    /\ interactive_scroll \in BOOLEAN
    /\ pc = "scrape_year"
    /\ df = NoneDF
    /\ endpoints = <<>>
    /\ outcome = "running"
    /\ InitLocals
    /\ invoked = <<>>
    /\ threw = {}
    /\ net_best = -2
    /\ insp_best = -2
    /\ produced_max = -1
    /\ chosen = NoneDF


\* ------------------------------------------------------------------------
\* scrape_year and scrape_with_network_monitoring, step by step
\* ------------------------------------------------------------------------

\* The exception leaves scrape_year: no table, no endpoints.
Raise ==
    /\ pc' = "done"
    /\ outcome' = "raised"
    /\ df' = NoneDF
    /\ endpoints' = <<>>

\* `return t, eps` of scrape_with_network_monitoring, received by
\* `df, api_endpoints = ...` in scrape_year.
Return(t, eps) ==
    /\ pc' = "snm_return"
    /\ df' = t
    /\ endpoints' = eps
    /\ outcome' = outcome

\* Variant: network monitoring runs after interactive capture in any case.
AfterInteractiveAlways(r) == "monitor"

\* `if df is None:` after interactive_scroll_mode: network monitoring is
\* called only when interactive capture returned None.
AfterInteractive(r) == IF r = -1 THEN "monitor" ELSE "tail"

\* scrape_year with interactive_scroll: driver.get, then
\* interactive_scroll_mode, which swallows KeyboardInterrupt and returns what
\* it collected (None when nothing was).
InteractiveScroll ==
    /\ pc = "scrape_year"
    /\ interactive_scroll
    /\ \E exc \in BOOLEAN, r \in InteractiveRows :
         IF exc
         THEN /\ Raise
              /\ UNCHANGED <<invoked, produced_max>>
         ELSE /\ invoked' = Append(invoked, "interactive")
              /\ produced_max' = Max2(produced_max, r)
              /\ df' = IF r = -1 THEN NoneDF ELSE Table(r, 0, "interactive", 0)
              /\ endpoints' = <<[tag |-> "[INTERACTIVE_SCROLL]", url |-> 0]>>
              /\ outcome' = outcome
              /\ pc' = AfterInteractive(r)
    /\ UNCHANGED <<batch_vars, year, limit, interactive_scroll, snm_locals,
                   threw, net_best, insp_best, chosen>>

\* monitor_and_capture: nothing catches an exception of driver.get_log,
\* driver.get or execute_script; an empty capture returns (None, []).
MonitorAndCapture ==
    /\ \/ pc = "scrape_year" /\ ~interactive_scroll
       \/ pc = "monitor"
    /\ invoked' = Append(invoked, "network")
    /\ \E exc \in BOOLEAN, reqs \in SeqsUpTo(ReqKinds, MaxReqs) :
         IF exc
         THEN /\ Raise
              /\ threw' = threw \cup {"monitor"}
              /\ UNCHANGED <<ajax_requests, net_best>>
         ELSE IF reqs = <<>>
         THEN /\ Return(NoneDF, <<>>)
              /\ net_best' = -1
              /\ UNCHANGED <<ajax_requests, threw>>
         ELSE /\ ajax_requests' = reqs
              /\ pc' = "snm_loop"
              /\ UNCHANGED <<df, endpoints, outcome, threw, net_best>>
    /\ UNCHANGED <<batch_vars, year, limit, interactive_scroll, req_idx, all_dataframes,
                   api_endpoints, doubleclick_found, best_df, page_df, api_df,
                   insp_best, produced_max, chosen>>

\* One iteration of the loop over ajax_requests (the body is fetched by
\* get_response_body inside the iteration).
ProcessRequest ==
    /\ pc = "snm_loop"
    /\ ajax_requests # <<>>
    /\ \E body \in BodiesOf(Head(ajax_requests)) :
         LET kind == Head(ajax_requests)
             t == RequestTable(kind, req_idx + 1, body)
         IN /\ all_dataframes' = IF IsNone(t) THEN all_dataframes
                                 ELSE Append(all_dataframes, t)
            /\ api_endpoints' = IF IsNone(t) THEN api_endpoints
                                ELSE Append(api_endpoints, EndpointLabel(t))
            /\ doubleclick_found' =
                 (doubleclick_found \/
                    (body.len >= MinBodyLen /\ kind # "js" /\ IsDoubleclickData(kind, body)))
            /\ produced_max' = Max2(produced_max, t.rows)
    /\ ajax_requests' = Tail(ajax_requests)
    /\ req_idx' = req_idx + 1
    /\ UNCHANGED <<batch_vars, year, limit, interactive_scroll, pc, df, endpoints, outcome,
                   best_df, page_df, api_df,
                   invoked, threw, net_best, insp_best, chosen>>

\* After the loop: `if all_dataframes:` picks the largest table and decides
\* whether to escalate; otherwise the alternative methods are tried.
SelectBest ==
    /\ pc = "snm_loop"
    /\ ajax_requests = <<>>
    /\ IF all_dataframes # <<>>
       THEN LET b == BestOf(all_dataframes) IN
            /\ best_df' = b
            /\ net_best' = b.rows
            /\ IF Insufficient(b.rows, ExpectedRows(year))
               THEN /\ pc' = "inspect_a"
                    /\ UNCHANGED <<df, endpoints, outcome>>
               ELSE Return(b, api_endpoints)
       ELSE /\ net_best' = -1
            /\ pc' = "inspect_b"
            /\ UNCHANGED <<best_df, df, endpoints, outcome>>
    /\ UNCHANGED <<batch_vars, year, limit, interactive_scroll, ajax_requests, req_idx,
                   all_dataframes, api_endpoints, doubleclick_found, page_df,
                   api_df, invoked, threw, insp_best, produced_max, chosen>>

\* inspect_page_sources: every exception inside it is caught and gives None;
\* a script list is returned when it has more than 50 rows; an HTML table is
\* taken when its <tbody> has more than 50 <tr>, and its rows are the <tr>
\* that hold cells.
InspectPageSources(out) ==
    IF out.exc THEN NoneDF
    ELSE IF out.script > MinPageRows THEN Table(out.script, 2, "page", 0)
    ELSE IF out.trs > MinPageRows /\ out.trs - out.blank > 0
         THEN Table(out.trs - out.blank, 2, "page", 0)
    ELSE NoneDF

\* Page inspection when the network tables are insufficient.
InspectA ==
    /\ pc = "inspect_a"
    /\ \E out \in PageOutcomes :
         LET r == InspectPageSources(out)
             b == IF ~IsNone(r) /\ Better(r.rows, best_df.rows) THEN r ELSE best_df
         IN /\ page_df' = r
            /\ best_df' = b
            /\ insp_best' = b.rows
            /\ threw' = IF out.exc THEN threw \cup {"inspect"} ELSE threw
            /\ produced_max' = Max2(produced_max, r.rows)
            /\ IF Insufficient(b.rows, ExpectedRows(year))
               THEN /\ pc' = "api_a"
                    /\ UNCHANGED <<df, endpoints, outcome>>
               ELSE Return(b, api_endpoints)
    /\ invoked' = Append(invoked, "inspect")
    /\ UNCHANGED <<batch_vars, year, limit, interactive_scroll, ajax_requests, req_idx,
                   all_dataframes, api_endpoints, doubleclick_found, api_df,
                   net_best, chosen>>

\* Page inspection when no network table was accepted.
InspectB ==
    /\ pc = "inspect_b"
    /\ \E out \in PageOutcomes :
         LET r == InspectPageSources(out) IN
            /\ page_df' = r
            /\ insp_best' = r.rows
            /\ threw' = IF out.exc THEN threw \cup {"inspect"} ELSE threw
            /\ produced_max' = Max2(produced_max, r.rows)
            /\ IF ~IsNone(r) /\ r.rows > MinPageRows
               THEN Return(r, <<>>)
               ELSE /\ pc' = "api_b"
                    /\ UNCHANGED <<df, endpoints, outcome>>
    /\ invoked' = Append(invoked, "inspect")
    /\ UNCHANGED <<batch_vars, year, limit, interactive_scroll, ajax_requests, req_idx,
                   all_dataframes, api_endpoints, doubleclick_found, best_df,
                   api_df, net_best, chosen>>

\* try_api_patterns: None, or a table of more than 50 rows.
TryApiResult(out) ==
    IF out.rows > MinPageRows THEN Table(out.rows, 2, "probe", 0) ELSE NoneDF

\* The endpoint probe when network and page tables are insufficient.
TryApiA ==
    /\ pc = "api_a"
    /\ \E out \in ApiOutcomes :
         LET r == TryApiResult(out)
             b == IF ~IsNone(r) /\ Better(r.rows, best_df.rows) THEN r ELSE best_df
         IN /\ api_df' = r
            /\ best_df' = b
            /\ threw' = IF out.exc THEN threw \cup {"api"} ELSE threw
            /\ produced_max' = Max2(produced_max, r.rows)
            /\ Return(b, api_endpoints)
    /\ invoked' = Append(invoked, "api")
    /\ UNCHANGED <<batch_vars, year, limit, interactive_scroll, ajax_requests, req_idx,
                   all_dataframes, api_endpoints, doubleclick_found, page_df,
                   net_best, insp_best, chosen>>

\* The endpoint probe when neither network nor page gave a table.
TryApiB ==
    /\ pc = "api_b"
    /\ \E out \in ApiOutcomes :
         LET r == TryApiResult(out) IN
            /\ api_df' = r
            /\ threw' = IF out.exc THEN threw \cup {"api"} ELSE threw
            /\ produced_max' = Max2(produced_max, r.rows)
            /\ IF ~IsNone(r) /\ r.rows > MinPageRows
               THEN Return(r, <<>>)
               ELSE Return(NoneDF, api_endpoints)
    /\ invoked' = Append(invoked, "api")
    /\ UNCHANGED <<batch_vars, year, limit, interactive_scroll, ajax_requests, req_idx,
                   all_dataframes, api_endpoints, doubleclick_found, best_df,
                   page_df, net_best, insp_best, chosen>>

\* df.iloc[:limit] when `limit and len(df) > limit`.
Truncate(n, lim) ==
    IF lim # 0 /\ n > lim
    THEN IF lim > 0 THEN lim ELSE Max2(0, n + lim)
    ELSE n

\* The rest of scrape_year: HTML fallback, the error, the limit.
ScrapeYearTail ==
    /\ pc \in {"snm_return", "tail"}
    /\ LET needs == IsNone(df) \/ df.rows < FallbackBelow IN
       \E fb \in (IF needs THEN FallbackRows ELSE {-1}) :
         LET d == IF needs
                  THEN (IF fb = -1 THEN NoneDF ELSE Table(fb, 0, "fallback", 0))
                  ELSE df
         IN /\ invoked' = IF needs THEN Append(invoked, "fallback") ELSE invoked
            /\ produced_max' = Max2(produced_max, d.rows)
            /\ IF IsNone(d) \/ d.rows = 0
               THEN /\ outcome' = "raised"
                    /\ df' = NoneDF
                    /\ endpoints' = <<>>
                    /\ chosen' = chosen
               ELSE /\ outcome' = "returned"
                    /\ chosen' = d
                    /\ df' = [d EXCEPT !.rows = Truncate(d.rows, limit)]
                    /\ endpoints' = endpoints
    /\ pc' = "done"
    /\ ajax_requests' = <<>>
    /\ req_idx' = 0
    /\ all_dataframes' = <<>>
    /\ api_endpoints' = <<>>
    /\ doubleclick_found' = FALSE
    /\ best_df' = NoneDF
    /\ page_df' = NoneDF
    /\ api_df' = NoneDF
    /\ UNCHANGED <<batch_vars, year, limit, interactive_scroll, threw, net_best, insp_best>>

\* KeyboardInterrupt while scrape_with_network_monitoring runs: no handler
\* of the function or of scrape_year catches it, `except Exception` in main
\* does not either, and it leaves the program through `finally:
\* driver.quit()`.  The tables of the interrupted call are lost with its
\* frame.
Interrupt ==
    /\ pc \in {"monitor", "snm_loop", "inspect_a", "inspect_b", "api_a", "api_b"}
    /\ Raise
    /\ threw' = threw \cup {"interrupt"}
    /\ ajax_requests' = <<>>
    /\ req_idx' = 0
    /\ all_dataframes' = <<>>
    /\ api_endpoints' = <<>>
    /\ doubleclick_found' = FALSE
    /\ best_df' = NoneDF
    /\ page_df' = NoneDF
    /\ api_df' = NoneDF
    /\ UNCHANGED <<batch_vars, year, limit, interactive_scroll, invoked, net_best,
                   insp_best, produced_max, chosen>>

Next ==
    \/ InteractiveScroll
    \/ MonitorAndCapture
    \/ ProcessRequest
    \/ SelectBest
    \/ InspectA
    \/ InspectB
    \/ TryApiA
    \/ TryApiB
    \/ ScrapeYearTail
    \/ Interrupt

Spec == Init /\ [][Next]_vars

TypeOK ==
    /\ pc \in {"scrape_year", "monitor", "tail", "snm_loop", "inspect_a", "inspect_b",
               "api_a", "api_b", "snm_return", "done"}
    /\ outcome \in {"running", "returned", "raised"}
    /\ Len(all_dataframes) = Len(api_endpoints)
    /\ Len(all_dataframes) <= MaxReqs


\* ------------------------------------------------------------------------
\* Properties of one query (Spec)
\* ------------------------------------------------------------------------

Invoked(name) == \E i \in DOMAIN invoked : invoked[i] = name

\* The operator cancelled the query (KeyboardInterrupt).
Cancelled == "interrupt" \in threw

\* The query is over: scrape_with_network_monitoring returned or scrape_year
\* ended, without having been cancelled.
QueryFinished == pc \in {"snm_return", "done"} /\ ~Cancelled

\* Tables that competed for the result of scrape_with_network_monitoring:
\* those in all_dataframes, the page-inspection table (any table when it is
\* compared with best_df, a table above the floor otherwise) and the probe's.
Candidates ==
    {all_dataframes[i] : i \in DOMAIN all_dataframes}
      \cup (IF ~IsNone(page_df) /\ (all_dataframes # <<>> \/ page_df.rows > MinPageRows)
            THEN {page_df} ELSE {})
      \cup (IF ~IsNone(api_df) THEN {api_df} ELSE {})

\* C1: escalation monotonicity.  Once the best table after network capture
\* has at least half the expected rows, neither page inspection nor the
\* endpoint probe is invoked; once the best table after page inspection has
\* at least half the expected rows, the endpoint probe is not invoked.
C1_EscalationMonotonic ==
    /\ (net_best >= 0 /\ 2 * net_best >= ExpectedRows(year))
          => (~Invoked("inspect") /\ ~Invoked("api"))
    /\ (insp_best >= 0 /\ 2 * insp_best >= ExpectedRows(year))
          => ~Invoked("api")

\* A query that ended after network capture alone, the capture having
\* produced a table of at least half the expected rows.
C1_Witness ==
    /\ pc = "done"
    /\ outcome = "returned"
    /\ net_best >= 0
    /\ 2 * net_best >= ExpectedRows(year)
    /\ \E i \in DOMAIN invoked : invoked[i] = "network"

\* C2: escalation on insufficiency.  When network capture ends below half
\* the expected rows (no candidate and no accepted table included), page
\* inspection is invoked before the query finishes; when page inspection ends
\* below half the expected rows, the endpoint probe is invoked.
C2_EscalationOnInsufficiency ==
    QueryFinished =>
       /\ (net_best # -2 /\ 2 * net_best < ExpectedRows(year)) => Invoked("inspect")
       /\ (insp_best # -2 /\ 2 * insp_best < ExpectedRows(year)) => Invoked("api")

\* C3: a capture source that throws is treated as zero candidates and the
\* cascade goes on with the next strategy: after an exception in
\* monitor_and_capture page inspection is invoked, after one in page
\* inspection the endpoint probe is.
C3_CaptureExceptionsCaught ==
    /\ ("monitor" \in threw) => (outcome # "raised" /\ (QueryFinished => Invoked("inspect")))
    /\ ("inspect" \in threw /\ QueryFinished) => Invoked("api")

\* C4: best-effort result.  If a strategy produced a table with at least one
\* row (here: network capture had a table accepted), the query does not fail
\* and returns a table at least as large as the largest one produced by any
\* strategy.
C4_BestEffortResult ==
    (pc = "done" /\ ~Cancelled /\ net_best >= 1)
       => (outcome = "returned" /\ chosen.rows >= produced_max)

\* C5: scrape_year never returns a missing or zero-row table: it ends either
\* with an error or with a table of at least one row.
C5_NoEmptyResult ==
    pc = "done" =>
       /\ outcome \in {"returned", "raised"}
       /\ outcome = "returned" => (~IsNone(df) /\ df.rows >= 1)

\* C7: selection by row count.  The table returned by
\* scrape_with_network_monitoring has at least as many rows as every table
\* accepted from a strategy that ran.
C7_SelectionByRowCount ==
    pc = "snm_return" => \A t \in Candidates : df.rows >= t.rows

\* All three strategies gave a table and the largest one is returned.
C7_Witness ==
    /\ pc = "snm_return"
    /\ all_dataframes # <<>>
    /\ ~IsNone(page_df)
    /\ ~IsNone(api_df)
    /\ df = api_df
    /\ page_df.rows > all_dataframes[1].rows

\* Provenance priority: Network-Traffic > Script/DOM > Known-Endpoint > Interactive.
ProvPriority(t) ==
    IF t.prov \in {"ajax", "js", "ad"} THEN 3
    ELSE IF t.prov = "page" THEN 2
    ELSE IF t.prov = "probe" THEN 1
    ELSE 0

\* C8 as stated: among candidates of the same row count the one of higher
\* relevance is selected, and at equal relevance the one of higher
\* provenance priority.
C8_TieBreakByRelevance ==
    (pc = "snm_return" /\ ~IsNone(df)) =>
       \A t \in Candidates :
          t.rows = df.rows =>
             \/ t.rel < df.rel
             \/ (t.rel = df.rel /\ ProvPriority(t) <= ProvPriority(df))

\* Position of a candidate in the order the code meets them: the tables of
\* all_dataframes in list order, then the page table, then the probe's.
MeetOrder(t) ==
    IF t.prov \in {"ajax", "js", "ad"} THEN t.url
    ELSE IF t.prov = "page" THEN MaxReqs + 2
    ELSE MaxReqs + 3

\* C8 (amended): among candidates of the same row count the one met first is
\* selected, whatever the relevance: the earliest of all_dataframes, a
\* network table before the page table, the page table before the probe's.
C8_TieBreakByOrder ==
    (pc = "snm_return" /\ ~IsNone(df)) =>
       \A t \in Candidates : t.rows = df.rows => MeetOrder(df) <= MeetOrder(t)

\* Two network tables tie for the largest row count, the later one is the
\* more relevant, and the earlier one is returned.
C8_Witness ==
    /\ pc = "snm_return"
    /\ Len(all_dataframes) >= 2
    /\ df = all_dataframes[1]
    /\ all_dataframes[2].rows = df.rows
    /\ all_dataframes[2].rel > df.rel

\* The orders in which the same tables can have been appended to all_dataframes.
Orders(s) == {[i \in DOMAIN s |-> s[f[i]]] : f \in Permutations(DOMAIN s)}

\* best_df holds the selection made from all_dataframes alone.
SelectedFromNetwork ==
    /\ all_dataframes # <<>>
    /\ \/ pc = "inspect_a"
       \/ pc = "snm_return" /\ ~Invoked("inspect")

\* No two tables tie for the largest row count.
UniqueLargest(s) ==
    \A i, j \in DOMAIN s :
       ((\A k \in DOMAIN s : s[k].rows <= s[i].rows) /\ s[j].rows = s[i].rows) => s[i] = s[j]

\* C9 as stated: the winner is the same for every order of all_dataframes.
C9_SelectorDeterminism ==
    SelectedFromNetwork => \A p \in Orders(all_dataframes) : BestOf(p) = best_df

\* C9 (amended): for every order of all_dataframes the winner has the same
\* row count, the largest, and it is the same table when no two tables tie
\* for the largest row count.
C9_WinnerRowsOrderIndependent ==
    SelectedFromNetwork =>
       \A p \in Orders(all_dataframes) :
          /\ BestOf(p).rows = best_df.rows
          /\ \A i \in DOMAIN all_dataframes : all_dataframes[i].rows <= best_df.rows
          /\ UniqueLargest(all_dataframes) => BestOf(p) = best_df

\* A selection among several tables of different sizes, the largest not first.
C9_Witness ==
    /\ SelectedFromNetwork
    /\ Len(all_dataframes) >= 2
    /\ all_dataframes[1].rows < all_dataframes[2].rows
    /\ best_df = all_dataframes[2]

\* The year has no entry in YEAR_LIMITS.
UnknownYear == year \notin DOMAIN YEAR_LIMITS

\* C11 as stated: for a year whose expected row count is not known, once
\* network capture has produced an accepted table neither page inspection
\* nor the endpoint probe is invoked, whatever the size of the table.
C11_UnknownNoEscalation ==
    (UnknownYear /\ net_best >= 0) => (~Invoked("inspect") /\ ~Invoked("api"))

\* C11 (amended): a year that YEAR_LIMITS does not list is expected to have
\* 1000 rows.  Once network capture has produced an accepted table of at
\* least 500 rows neither page inspection nor the endpoint probe is invoked;
\* with an accepted table of fewer than 500 rows page inspection is invoked
\* before scrape_with_network_monitoring returns.
C11_UnknownYearDefault ==
    (UnknownYear /\ net_best >= 0) =>
       /\ net_best >= 500 => (~Invoked("inspect") /\ ~Invoked("api"))
       /\ (net_best < 500 /\ QueryFinished) => Invoked("inspect")

\* An unlisted year whose accepted network table is below 500 rows: page
\* inspection ran before the function returned.
C11_Witness ==
    /\ UnknownYear
    /\ pc = "snm_return"
    /\ net_best > MinRows
    /\ net_best < 500
    /\ Invoked("inspect")

\* Priority of a capture strategy; the HTML fallback of scrape_year is not
\* one of them.
StrategyRank(name) ==
    IF name = "interactive" THEN 0
    ELSE IF name = "network" THEN 1
    ELSE IF name = "inspect" THEN 2
    ELSE IF name = "api" THEN 3
    ELSE 4

\* The strategies were invoked in priority order, each at most once, none
\* before the one it follows; interactive capture only on request, and first.
StrategiesInOrder ==
    /\ \A i, j \in DOMAIN invoked :
          i < j => StrategyRank(invoked[i]) < StrategyRank(invoked[j])
    /\ Invoked("inspect") => Invoked("network")
    /\ Invoked("api") => Invoked("inspect")
    /\ Invoked("interactive") => interactive_scroll
    /\ (interactive_scroll /\ invoked # <<>>) => invoked[1] = "interactive"

\* Network monitoring starts after interactive capture only when the table
\* interactive capture left in df is None.
NetworkOnlyAfterEmptyInteractive ==
    (~Invoked("network") /\ Invoked("network")' /\ Invoked("interactive")) => IsNone(df)

\* C12: strategy order.  Within one query the strategies are attempted only
\* in the order network capture, page inspection, endpoint probe;
\* interactive capture runs only when the caller opted in, then runs first,
\* and network monitoring follows it only if it returned no data.
C12_StrategyOrder == [](StrategiesInOrder) /\ [][NetworkOnlyAfterEmptyInteractive]_vars

\* A query that went through all four strategies.
C12_Witness ==
    /\ interactive_scroll
    /\ Len(invoked) >= 4
    /\ invoked[1] = "interactive"
    /\ invoked[2] = "network"
    /\ invoked[3] = "inspect"
    /\ invoked[4] = "api"

\* C13: acceptance floor.  Every table of all_dataframes has more than 10
\* rows, and every table returned by the JS-bundle extraction, by
\* inspect_page_sources or by try_api_patterns has more than 50 rows.
C13_AcceptanceFloor ==
    /\ \A i \in DOMAIN all_dataframes :
          /\ all_dataframes[i].rows > MinRows
          /\ all_dataframes[i].prov = "js" => all_dataframes[i].rows > MinPageRows
    /\ ~IsNone(page_df) => page_df.rows > MinPageRows
    /\ ~IsNone(api_df) => api_df.rows > MinPageRows

\* C23: cancellation keeps progress.  A KeyboardInterrupt during interactive
\* capture or during the network cascade aborts the in-flight source only:
\* the tables accumulated before it are still considered and the query
\* returns the best table collected so far.
C23_CancellationKeepsProgress ==
    (pc = "done" /\ Cancelled /\ produced_max >= 1)
       => (outcome = "returned" /\ ~IsNone(df) /\ chosen.rows >= produced_max)

\* C24: provenance matches the winner.  The endpoint list returned by
\* scrape_year names the source of the selected table: a table from page
\* inspection, the endpoint probe or the HTML fallback is never reported
\* with network, ad or interactive provenance, a network table is reported
\* with its own label, and the ad-delivery label appears only when the
\* selected table came from an ad payload.
C24_ProvenanceMatchesWinner ==
    (pc = "done" /\ outcome = "returned") =>
       /\ chosen.prov \in {"page", "probe", "fallback"} => endpoints = <<>>
       /\ chosen.prov = "interactive"
             => endpoints = <<[tag |-> "[INTERACTIVE_SCROLL]", url |-> 0]>>
       /\ chosen.prov \in {"ajax", "js", "ad"}
             => \E i \in DOMAIN endpoints : endpoints[i] = EndpointLabel(chosen)
       /\ (\E i \in DOMAIN endpoints : endpoints[i].tag = "[DOUBLECLICK]")
             => chosen.prov = "ad"

\* ------------------------------------------------------------------------
\* the_scraper.main: the loop over the years and the summary (SpecMain)
\* ------------------------------------------------------------------------

\* Years of the --years list.
MainYears == {2023, 2024}

\* What one pass of the loop body can do: scrape_year or the CSV write
\* raises an Exception (-1), a KeyboardInterrupt arrives (-2), or a table of
\* that many rows is saved.
ScrapeYearOutcomes == {-1, -2, 1, 2403, 2404}

\* rc >= expected * 0.9
MeetsExpectation(rc, expected) == 10 * rc >= 9 * expected

InitMain ==
    /\ QueryIdle
    /\ FullIdle
    /\ AuxIdle
    /\ years \in SeqsUpTo(MainYears, MaxYears) \ {<<>>}
    /\ mpc = "loop"
    /\ year_i = 0
    /\ overall_counts = <<>>
    /\ driver = "open"
    /\ attempted = <<>>
    /\ marks = <<>>

\* One pass of `for year in args.years`: `except Exception` keeps the loop
\* going, a KeyboardInterrupt leaves it through `finally: driver.quit()`.
ScrapeYearCall ==
    /\ mpc = "loop"
    /\ year_i < Len(years)
    /\ attempted' = Append(attempted, years[year_i + 1])
    /\ \E out \in ScrapeYearOutcomes :
         IF out = -2
         THEN /\ mpc' = "interrupted"
              /\ driver' = "quit"
              /\ UNCHANGED <<year_i, overall_counts>>
         ELSE /\ year_i' = year_i + 1
              /\ overall_counts' = IF out = -1 THEN overall_counts
                                   ELSE Append(overall_counts, <<years[year_i + 1], out>>)
              /\ UNCHANGED <<mpc, driver>>
    /\ UNCHANGED <<query_vars, full_vars, aux_vars, years, marks>>

\* The loop is over: `finally: driver.quit()`, then the summary starts.
QuitDriver ==
    /\ mpc = "loop"
    /\ year_i = Len(years)
    /\ driver' = "quit"
    /\ mpc' = "summary"
    /\ UNCHANGED <<query_vars, full_vars, aux_vars, years, year_i, overall_counts, attempted, marks>>

\* One line of the summary: YEAR_LIMITS.get(y, "?") gives a string for an
\* unknown year, and `"?" * 0.9` raises TypeError, which nothing catches.
SummaryLine ==
    /\ mpc = "summary"
    /\ Len(marks) < Len(overall_counts)
    /\ LET y == overall_counts[Len(marks) + 1][1]
           rc == overall_counts[Len(marks) + 1][2]
       IN IF y \in DOMAIN YEAR_LIMITS
          THEN /\ marks' = Append(marks, [year |-> y, rows |-> rc,
                                          meets |-> MeetsExpectation(rc, YEAR_LIMITS[y])])
               /\ mpc' = mpc
          ELSE /\ mpc' = "crashed"
               /\ marks' = marks
    /\ UNCHANGED <<query_vars, full_vars, aux_vars, years, year_i, overall_counts, driver, attempted>>

SummaryEnd ==
    /\ mpc = "summary"
    /\ Len(marks) = Len(overall_counts)
    /\ mpc' = "end"
    /\ UNCHANGED <<query_vars, full_vars, aux_vars, years, year_i, overall_counts, driver, attempted, marks>>

NextMain ==
    \/ ScrapeYearCall
    \/ QuitDriver
    \/ SummaryLine
    \/ SummaryEnd

SpecMain == InitMain /\ [][NextMain]_vars

\* ------------------------------------------------------------------------
\* the_university_rankings_full.run_interactive (SpecFull)
\* ------------------------------------------------------------------------

\* First years of the range given to ask_years_range.
FullStartYears == {2011, 2012}

\* What fetch_json returns: None ("none": request failed, caught inside), an
\* empty object, an object without `data`, an object whose `data` is null,
\* or an object whose `data` is a list of records ("rec") and strings ("str").
Docs ==
    {[kind |-> k, items |-> <<>>] : k \in {"none", "empty", "nodata", "null"}}
      \cup {[kind |-> "list", items |-> it] : it \in SeqsUpTo({"rec", "str"}, 2)}

\* `if rankings_data:`
Truthy(doc) == doc.kind \notin {"none", "empty"}

\* filter_data_for_db raises: iterating None, or university.get on a string.
FilterRaises(doc) ==
    \/ doc.kind = "null"
    \/ doc.kind = "list" /\ \E i \in DOMAIN doc.items : doc.items[i] = "str"

\* filter_data_for_db returns None (`"data" not in data`).
FilterNone(doc) == doc.kind = "nodata"

YearRange(start, n) == [i \in 1..n |-> start + i - 1]

\* The tables process_year fetches for the years, in order.
GeneralUnits(ys) ==
    [k \in 1..(2 * Len(ys)) |->
        [year |-> ys[(k + 1) \div 2], subject |-> "",
         table |-> IF k % 2 = 1 THEN "rankings" ELSE "key_statistics"]]

\* The tables process_subjects_for_year fetches, in order.
SubjectUnits(ys, slugs) ==
    [k \in 1..(2 * Len(ys) * Len(slugs)) |->
        [year |-> ys[((k - 1) \div (2 * Len(slugs))) + 1],
         subject |-> slugs[(((k - 1) \div 2) % Len(slugs)) + 1],
         table |-> IF k % 2 = 1 THEN "rankings" ELSE "key_statistics"]]

\* Everything run_interactive has to fetch for the chosen mode.
Units ==
    (IF mode \in {"general", "both"} THEN GeneralUnits(full_years) ELSE <<>>)
      \o (IF mode \in {"subject", "both"} THEN SubjectUnits(full_years, subject_slugs) ELSE <<>>)

InitFull ==
    /\ QueryIdle
    /\ MainIdle
    /\ AuxIdle
    /\ mode \in {"general", "subject", "both"}
    /\ \E start \in FullStartYears, n \in 1..MaxFullYears : full_years = YearRange(start, n)
    /\ subject_slugs = IF mode = "general" THEN <<>> ELSE <<"law">>
    /\ fpc = "run"
    /\ unit_i = 0
    /\ saved = <<>>

\* One table of process_year / process_subject: fetch_json, filter_data_for_db
\* and save_outputs.  Nothing between filter_data_for_db and the top of the
\* program catches an exception.
ProcessTable ==
    /\ fpc = "run"
    /\ unit_i < Len(Units)
    /\ \E doc \in Docs :
         IF Truthy(doc) /\ FilterRaises(doc)
         THEN /\ fpc' = "crashed"
              /\ UNCHANGED <<unit_i, saved>>
         ELSE /\ unit_i' = unit_i + 1
              /\ saved' = IF Truthy(doc) /\ ~FilterNone(doc)
                          THEN Append(saved, unit_i + 1) ELSE saved
              /\ fpc' = fpc
    /\ UNCHANGED <<query_vars, main_vars, aux_vars, mode, full_years, subject_slugs>>

\* "Processing complete."
FullEnd ==
    /\ fpc = "run"
    /\ unit_i = Len(Units)
    /\ fpc' = "end"
    /\ UNCHANGED <<query_vars, main_vars, aux_vars, mode, full_years, subject_slugs, unit_i, saved>>

NextFull ==
    \/ ProcessTable
    \/ FullEnd

SpecFull == InitFull /\ [][NextFull]_vars

\* ------------------------------------------------------------------------
\* Properties of the batches
\* ------------------------------------------------------------------------

\* the_scraper.main: once the loop is left without an interrupt every year
\* of the list was attempted in list order, and the driver is quit whenever
\* the loop is left.
ScraperBatchIsolation ==
    /\ mpc \in {"summary", "end", "crashed"} => attempted = years
    /\ mpc \in {"summary", "end", "crashed", "interrupted"} => driver = "quit"

\* the_university_rankings_full: when the run is over every table of every
\* year and subject was fetched.
FullBatchIsolation ==
    /\ fpc = "end" => unit_i = Len(Units)
    /\ fpc = "crashed" => unit_i + 1 = Len(Units)

\* C6: batch isolation.  An error in one query unit never stops the batch:
\* main attempts every year in list order and quits the driver on every
\* path, and a failure while fetching or filtering one table does not keep
\* the remaining tables, subjects and years from being processed.
C6_BatchIsolation == ScraperBatchIsolation /\ FullBatchIsolation

\* C10: the summary marks a saved year as meeting expectation exactly when
\* rowCount >= 0.9 x expected; a year without a known expected row count is
\* marked as meeting expectation, and the summary completes without error.
C10_MeetsExpectation ==
    /\ mpc # "crashed"
    /\ mpc = "end" => Len(marks) = Len(overall_counts)
    /\ \A i \in DOMAIN marks :
          /\ marks[i].year = overall_counts[i][1]
          /\ marks[i].meets =
               IF marks[i].year \in DOMAIN YEAR_LIMITS
               THEN 10 * marks[i].rows >= 9 * YEAR_LIMITS[marks[i].year]
               ELSE TRUE

\* ------------------------------------------------------------------------
\* the_scraper.extract_ajax_requests (SpecCapture)
\* ------------------------------------------------------------------------

\* A URL is the sequence of its pieces.  "/track" is on the tracking list,
\* "/api/" is one of the data keywords, "pagead" marks an ad-delivery host,
\* "/page" is neither; the path can end in an extension and a query string
\* can follow the path.
UrlPaths == {<<"/api/">>, <<"/track">>, <<"/page">>, <<"/track", "/api/">>, <<"pagead", "/api/">>}
UrlExts == {<<>>, <<".js">>, <<".png">>}
UrlQueries == {<<>>, <<"?v=1">>}
Urls == {path \o ext \o q : path \in UrlPaths, ext \in UrlExts, q \in UrlQueries}

\* The pieces the code looks for.
TrackingList == {"/track"}
StaticExts == {".js", ".css", ".svg", ".png", ".jpg", ".gif"}
DataKeywords == {"/api/"}

\* Entries of the performance log: a message that is not JSON, an entry
\* without the 'message' key, a message of another method, or
\* Network.responseReceived with its response (without any field of it:
\* the defaults '' and 0 of the .get calls).
LogEntries ==
    {[method |-> m, url |-> <<>>, mime_type |-> "", status |-> 0] :
         m \in {"malformed", "no_message", "other", "Network.responseReceived"}}
      \cup [method : {"Network.responseReceived"}, url : Urls,
            mime_type : {"application/json", "text/javascript"}, status : {200, 404}]

\* `x in url` for one of the pieces of a list.
ContainsAny(url, pieces) == \E i \in DOMAIN url : url[i] \in pieces

\* any(url.endswith(ext) for ext in [...])
EndsWithAny(url, exts) == url # <<>> /\ url[Len(url)] \in exts

\* is_tracking
IsTracking(url) == ContainsAny(url, TrackingList)

\* is_static_asset
IsStaticAsset(url) == EndsWithAny(url, StaticExts)

\* The condition under which a response is appended to ajax_requests.
IsCandidate(e) ==
    /\ e.method = "Network.responseReceived"
    /\ e.status = 200
    /\ ~IsTracking(e.url)
    /\ ~IsStaticAsset(e.url)
    /\ ContainsAny(e.url, DataKeywords)

\* The test that sends an entry of ajax_requests to the JS-bundle path.
JsBundlePath(r) == r.mime_type = "text/javascript" \/ EndsWithAny(r.url, {".js"})

\* The kind of an entry of ajax_requests, as the loop of
\* scrape_with_network_monitoring tells them apart.
KindOf(r) ==
    IF JsBundlePath(r) THEN "js"
    ELSE IF ContainsAny(r.url, {"pagead"}) THEN "ad"
    ELSE "ajax"

\* What the body of the per-entry try block raises: json.loads on a message
\* that is not JSON, entry['message'] on an entry without that key.
EntryRaises(e) ==
    IF e.method = "malformed" THEN "JSONDecodeError"
    ELSE IF e.method = "no_message" THEN "KeyError"
    ELSE "none"

\* Variant: a per-entry handler for json.JSONDecodeError alone.
EntryCaughtDecodeOnly(exc) == exc = "JSONDecodeError"

\* `except json.JSONDecodeError: continue` and `except Exception: continue`.
EntryCaught(exc) == exc \in {"JSONDecodeError", "KeyError"}

\* What becomes of one log entry.
EntryOutcome(e) ==
    IF EntryRaises(e) # "none"
    THEN IF EntryCaught(EntryRaises(e)) THEN "dropped" ELSE "raised"
    ELSE IF IsCandidate(e) THEN "candidate" ELSE "dropped"

\* get_response_body returned None (the CDP command or the decoding raised)
\* or an empty string.
NoBody == [len |-> 0, kw |-> 0, rows |-> -1, emb |-> -1]

\* Bodies get_response_body returns for a captured request.
CapturedBodies(kind) ==
    {b \in BodiesOf(kind) :
        /\ b.len \in {99, 500} /\ b.kw = 3 /\ b.emb = -1
        /\ b.rows \in {-1, 11, 51}}

InitCapture ==
    /\ QueryIdle
    /\ MainIdle
    /\ FullIdle
    /\ LateIdle
    /\ RelevanceIdle
    /\ ParseIdle
    /\ RequestIdle
    /\ logs = <<>>
    /\ captured = <<>>
    /\ cpc = "get_log"
    /\ entry_outcomes = <<>>
    /\ body_idx = 0
    /\ loop_tables = <<>>
    /\ no_body = 0

\* driver.get_log('performance'): an exception is caught by the outer
\* handler and the empty list is returned.
GetLog ==
    /\ cpc = "get_log"
    /\ \E exc \in BOOLEAN : cpc' = IF exc THEN "failed" ELSE "loop"
    /\ UNCHANGED <<query_vars, main_vars, full_vars, late_vars,
                   relevance_vars, parse_vars,
                   request_vars, logs, captured,
                   entry_outcomes, body_idx, loop_tables, no_body>>

\* One iteration of `for entry in logs`.  An exception that the per-entry
\* handlers do not catch reaches the outer handler, which ends the loop.
ProcessLogEntry ==
    /\ cpc = "loop"
    /\ Len(logs) < MaxLogs
    /\ \E e \in LogEntries :
         /\ logs' = Append(logs, e)
         /\ entry_outcomes' = Append(entry_outcomes, EntryOutcome(e))
         /\ captured' = IF EntryOutcome(e) = "candidate"
                        THEN Append(captured, [url |-> e.url, mime_type |-> e.mime_type,
                                               status |-> e.status])
                        ELSE captured
         /\ cpc' = IF EntryOutcome(e) = "raised" THEN "failed" ELSE cpc
    /\ UNCHANGED <<query_vars, main_vars, full_vars, late_vars,
                   relevance_vars, parse_vars,
                   request_vars, body_idx, loop_tables, no_body>>

\* `return ajax_requests` after the last entry.
ReturnRequests ==
    /\ cpc = "loop"
    /\ cpc' = "done"
    /\ UNCHANGED <<query_vars, main_vars, full_vars, late_vars,
                   relevance_vars, parse_vars,
                   request_vars, logs, captured,
                   entry_outcomes, body_idx, loop_tables, no_body>>

\* One iteration of `for idx, req in enumerate(ajax_requests)` in
\* scrape_with_network_monitoring: get_response_body, then the loop body.
HandleCaptured ==
    /\ cpc = "done"
    /\ body_idx < Len(captured)
    /\ \E b \in CapturedBodies(KindOf(captured[body_idx + 1])) \cup {NoBody} :
         LET t == RequestTable(KindOf(captured[body_idx + 1]), body_idx + 1, b)
         IN /\ loop_tables' = IF IsNone(t) THEN loop_tables ELSE Append(loop_tables, t)
            /\ no_body' = IF b = NoBody THEN no_body + 1 ELSE no_body
    /\ body_idx' = body_idx + 1
    /\ UNCHANGED <<query_vars, main_vars, full_vars, late_vars,
                   relevance_vars, parse_vars,
                   request_vars, logs, captured, cpc, entry_outcomes>>

\* The loop over ajax_requests has ended.
EndOfRequests ==
    /\ cpc = "done"
    /\ body_idx = Len(captured)
    /\ cpc' = "end"
    /\ UNCHANGED <<query_vars, main_vars, full_vars, late_vars,
                   relevance_vars, parse_vars,
                   request_vars, logs, captured, entry_outcomes,
                   body_idx, loop_tables, no_body>>

NextCapture ==
    \/ GetLog
    \/ ProcessLogEntry
    \/ ReturnRequests
    \/ HandleCaptured
    \/ EndOfRequests

SpecCapture == InitCapture /\ [][NextCapture]_vars

\* The extension of the URL path: the piece before the query string.
PathExt(url) ==
    LET path == SelectSeq(url, LAMBDA x : x # "?v=1")
    IN IF path # <<>> /\ path[Len(path)] \in StaticExts THEN path[Len(path)] ELSE ""

\* C14: network capture filtering.  No exchange whose URL is on the tracking
\* list, or whose URL path has a static-asset extension, is returned by
\* extract_ajax_requests; every returned request has status 200 and a URL
\* with a data keyword.
C14_CaptureFiltering ==
    \A i \in DOMAIN captured :
       /\ ~IsTracking(captured[i].url)
       /\ PathExt(captured[i].url) = ""
       /\ captured[i].status = 200
       /\ ContainsAny(captured[i].url, DataKeywords)

\* C15: static assets stay eligible for embedded-data inspection.  When
\* extract_ajax_requests has returned, every status-200 response whose URL
\* ends in .js (and passes the tracking and keyword filters) is among the
\* returned requests, where the JS-bundle path of the loop inspects it.
C15_JsAssetsInspected ==
    cpc = "done" =>
       \A i \in DOMAIN logs :
          (/\ logs[i].method = "Network.responseReceived"
           /\ logs[i].status = 200
           /\ logs[i].url # <<>>
           /\ logs[i].url[Len(logs[i].url)] = ".js"
           /\ ~IsTracking(logs[i].url)
           /\ ContainsAny(logs[i].url, DataKeywords))
             => \E j \in DOMAIN captured :
                   captured[j].url = logs[i].url /\ JsBundlePath(captured[j])

\* C22: classifier totality.  For every observed exchange, a malformed log
\* message, an entry with missing fields and an absent or unretrievable
\* body included, classification completes without raising: the entry is
\* either dropped or a candidate, a candidate contributes at most one table
\* to the accumulation set, and the remaining exchanges are processed.
C22_ClassifierTotality ==
    /\ cpc = "failed" => logs = <<>>
    /\ Len(entry_outcomes) = Len(logs)
    /\ \A i \in DOMAIN entry_outcomes : entry_outcomes[i] \in {"dropped", "candidate"}
    /\ Cardinality({i \in DOMAIN entry_outcomes : entry_outcomes[i] = "candidate"})
          = Len(captured)
    /\ Len(loop_tables) + no_body <= body_idx
    /\ body_idx <= Len(captured)
    /\ cpc = "end" => body_idx = Len(captured)

\* An entry without 'message' was followed by a candidate whose body could
\* not be retrieved.
C22_Witness ==
    /\ cpc = "end"
    /\ Len(logs) >= 2
    /\ logs[1].method = "no_message"
    /\ entry_outcomes[2] = "candidate"
    /\ no_body = 1

\* ------------------------------------------------------------------------
\* One entry of ajax_requests through the loop body of
\* scrape_with_network_monitoring (SpecRequest)
\* ------------------------------------------------------------------------

InitRequest ==
    /\ QueryIdle
    /\ MainIdle
    /\ FullIdle
    /\ LateIdle
    /\ CaptureIdle
    /\ RelevanceIdle
    /\ ParseIdle
    /\ req_kind \in ReqKinds
    /\ req_body \in BodiesOf(req_kind)
    /\ req_table = NoneDF
    /\ qpc = "request"

\* The loop body for this entry: the table it appends, if any.
HandleRequest ==
    /\ qpc = "request"
    /\ req_table' = RequestTable(req_kind, 1, req_body)
    /\ qpc' = "next"
    /\ UNCHANGED <<query_vars, main_vars, full_vars, late_vars,
                   capture_vars, relevance_vars,
                   parse_vars, req_kind, req_body>>

NextRequest ==
    \/ HandleRequest

SpecRequest == InitRequest /\ [][NextRequest]_vars

\* C16: ad-delivery relevance gate.  A payload from an ad-delivery URL
\* contributes a table to all_dataframes only if at least 3 domain keywords
\* occur in it.
C16_AdRelevanceGate ==
    (qpc = "next" /\ req_kind = "ad" /\ ~IsNone(req_table)) => req_body.kw >= 3

\* C19: one parser for every origin; in particular a JSONP body (not JSON
\* itself, its wrapped payload a table above the floor) received from a
\* URL that is not an ad-delivery URL is unwrapped, parsed and accepted.
C19_OneParserForEveryOrigin ==
    (/\ qpc = "next"
     /\ req_kind = "ajax"
     /\ req_body.len >= MinBodyLen
     /\ req_body.rows = -1
     /\ req_body.emb > MinRows)
       => (~IsNone(req_table) /\ req_table.rows = req_body.emb)

\* ------------------------------------------------------------------------
\* api_discovery_test.THEAPIDiscovery._is_ranking_data (SpecRelevance)
\* ------------------------------------------------------------------------

\* ranking_keywords
RankingKeywords ==
    {"university", "college", "rank", "ranking", "score", "country", "teaching",
     "research", "citations", "industry income", "international outlook"}

\* Words the content is made of, as written in the response.
Words == {"University", "RANKING", "score", "name"}

\* str.lower() of a word.
Lower(w) ==
    IF w = "University" THEN "university"
    ELSE IF w = "RANKING" THEN "ranking"
    ELSE w

\* The keywords that are substrings of a word: 'rank' is one of 'ranking'.
KeywordsIn(w) ==
    IF w = "university" THEN {"university"}
    ELSE IF w = "ranking" THEN {"rank", "ranking"}
    ELSE IF w = "score" THEN {"score"}
    ELSE {}

\* The content: a JSON value of some type and the words its serialized
\* form holds, in order.
Contents == [type : {"dict", "list", "str", "int", "null"}, words : SeqsUpTo(Words, MaxWords)]

\* json.dumps(data).lower()
DataStr(d) == [i \in DOMAIN d.words |-> Lower(d.words[i])]

\* `keyword in data_str`
KeywordIn(k, data_str) == \E i \in DOMAIN data_str : k \in KeywordsIn(data_str[i])

\* Variant: every occurrence of a keyword counts (data_str.count(keyword)).
RECURSIVE CountOccurrences(_)
CountOccurrences(data_str) ==
    IF data_str = <<>> THEN 0
    ELSE Cardinality(KeywordsIn(Head(data_str))) + CountOccurrences(Tail(data_str))

\* sum(1 for keyword in ranking_keywords if keyword in data_str)
CountMatches(data_str) == Cardinality({k \in RankingKeywords : KeywordIn(k, data_str)})

InitRelevance ==
    /\ QueryIdle
    /\ MainIdle
    /\ FullIdle
    /\ LateIdle
    /\ CaptureIdle
    /\ ParseIdle
    /\ RequestIdle
    /\ ranking_data \in Contents
    /\ matches = 0
    /\ is_ranking = FALSE
    /\ rpc = "call"

\* _is_ranking_data(data)
IsRankingData ==
    /\ rpc = "call"
    /\ IF ranking_data.type \notin {"dict", "list"}
       THEN /\ is_ranking' = FALSE
            /\ matches' = matches
       ELSE /\ matches' = CountMatches(DataStr(ranking_data))
            /\ is_ranking' = (matches' >= 3)
    /\ rpc' = "done"
    /\ UNCHANGED <<query_vars, main_vars, full_vars, late_vars,
                   capture_vars, parse_vars,
                   request_vars, ranking_data>>

NextRelevance ==
    \/ IsRankingData

SpecRelevance == InitRelevance /\ [][NextRelevance]_vars

\* Number of occurrences of the keywords in the serialized content.
RECURSIVE Occurrences(_)
Occurrences(ws) ==
    IF ws = <<>> THEN 0
    ELSE Cardinality(KeywordsIn(Lower(Head(ws))) \cap RankingKeywords) + Occurrences(Tail(ws))

\* C17 as stated: the score is the number of occurrences of the keywords,
\* case-insensitively, in the serialized content, the content is relevant
\* exactly when that number is at least 3, and content that is neither an
\* object nor a list is never relevant.
C17_RelevanceByOccurrences ==
    rpc = "done" =>
       is_ranking = (/\ ranking_data.type \in {"dict", "list"}
                     /\ Occurrences(ranking_data.words) >= 3)

\* C17 (amended): the score is the number of the eleven keywords that occur
\* at least once, case-insensitively, in the serialized content; the content
\* is relevant exactly when that number is at least 3, and content that is
\* neither an object nor a list is never relevant.
C17_RelevanceByDistinctKeywords ==
    rpc = "done" =>
       LET present == {k \in RankingKeywords :
                          \E i \in DOMAIN ranking_data.words :
                             k \in KeywordsIn(Lower(ranking_data.words[i]))}
       IN /\ is_ranking = (/\ ranking_data.type \in {"dict", "list"}
                           /\ Cardinality(present) >= 3)
          /\ ranking_data.type \in {"dict", "list"} => matches = Cardinality(present)

\* A list judged relevant through keywords written in capitals.
C17_Witness ==
    /\ rpc = "done"
    /\ ranking_data.type = "list"
    /\ is_ranking
    /\ matches = 3
    /\ \A i \in DOMAIN ranking_data.words : ranking_data.words[i] \in {"University", "RANKING"}

\* ------------------------------------------------------------------------
\* the_scraper.parse_datatable_json and extract_data_from_doubleclick
\* (SpecParse)
\* ------------------------------------------------------------------------

\* Elements of a JSON list: records (JSON objects) or strings, one of them
\* the string "data".  A list holds records only or strings only.
Records == {"r1", "r2"}
Strings == {"data", "s"}
Lists == SeqsUpTo(Records, MaxItems) \cup SeqsUpTo(Strings, MaxItems)

\* Values of the keys of a JSON object: a list, a string, a nested object.
Values ==
    {[kind |-> "list", items |-> l] : l \in Lists}
      \cup {[kind |-> k, items |-> <<>>] : k \in {"str", "object"}}

Keys == {"data", "rows", "meta"}

\* The key/value pairs of a JSON object, in document order, keys distinct.
PairSeqs ==
    {ps \in SeqsUpTo([key : Keys, val : Values], MaxKeys) :
        \A i, j \in DOMAIN ps : ps[i].key = ps[j].key => i = j}

\* What json.loads makes of a body: nothing (not JSON), a number, a string,
\* an array or an object.
JsonDocs ==
    {[kind |-> k, str |-> "", items |-> <<>>, pairs |-> <<>>] : k \in {"invalid", "num"}}
      \cup {[kind |-> "str", str |-> x, items |-> <<>>, pairs |-> <<>>] : x \in Strings}
      \cup {[kind |-> "array", str |-> "", items |-> l, pairs |-> <<>>] : l \in Lists}
      \cup {[kind |-> "object", str |-> "", items |-> <<>>, pairs |-> ps] : ps \in PairSeqs}

\* Bodies: a document as it is, or a JSON object wrapped as JSONP, cb({...}).
Bodies ==
    [wrap : {"plain"}, doc : JsonDocs]
      \cup [wrap : {"jsonp"}, doc : {d \in JsonDocs : d.kind = "object"}]

\* Results: a DataFrame with its rows, None (with the exception that was
\* caught, if any), or an exception that leaves the function.
DataFrame(rows) == [status |-> "df", rows |-> rows, exc |-> "none"]
ReturnNone(e) == [status |-> "None", rows |-> <<>>, exc |-> e]
Raised(e) == [status |-> "raised", rows |-> <<>>, exc |-> e]

\* Variant: only `except json.JSONDecodeError` is there.
CaughtDecodeErrorOnly(e) == e = "JSONDecodeError"

\* `except json.JSONDecodeError` and `except Exception`.
Caught(e) == e \in {"JSONDecodeError", "AttributeError", "TypeError", "ValueError"}

\* An exception inside the try block of parse_datatable_json.
Except(e) == IF Caught(e) THEN ReturnNone(e) ELSE Raised(e)

HasKey(d, k) == \E i \in DOMAIN d.pairs : d.pairs[i].key = k
ValueOf(d, k) == d.pairs[CHOOSE i \in DOMAIN d.pairs : d.pairs[i].key = k].val

\* `'data' in data` where it does not raise: a key of a dict, an element of
\* a list, a substring of a string.
DataIn(d) ==
    IF d.kind = "object" THEN HasKey(d, "data")
    ELSE IF d.kind = "array" THEN \E i \in DOMAIN d.items : d.items[i] = "data"
    ELSE d.str = "data"

\* `for key, value in data.items()`: the first value that is a non-empty list.
FirstListValue(d) ==
    LET idx == {i \in DOMAIN d.pairs : d.pairs[i].val.kind = "list" /\ d.pairs[i].val.items # <<>>}
    IN IF idx = {} THEN ReturnNone("none")
       ELSE DataFrame(d.pairs[CHOOSE i \in idx : \A j \in idx : i <= j].val.items)

\* parse_datatable_json(json_data, verbose)
ParseDatatableJson(t, v) ==
    LET d == t.doc IN
    IF t.wrap # "plain" \/ d.kind = "invalid" THEN Except("JSONDecodeError")
    ELSE IF v /\ d.kind # "object" THEN Except("AttributeError")
    ELSE IF d.kind = "num" THEN Except("TypeError")
    ELSE IF DataIn(d) /\ d.kind # "object" THEN Except("TypeError")
    ELSE IF DataIn(d) /\ ValueOf(d, "data").kind = "list"
         THEN DataFrame(ValueOf(d, "data").items)
    ELSE IF d.kind = "array" THEN DataFrame(d.items)
    ELSE IF d.kind = "str" THEN Except("AttributeError")
    ELSE FirstListValue(d)

\* No value of the object holds a brace: the non-greedy match `{...}` of the
\* embedded-JSON step is then the whole object.
Flat(d) ==
    /\ d.kind = "object"
    /\ \A i \in DOMAIN d.pairs :
          /\ d.pairs[i].val.kind # "object"
          /\ \A j \in DOMAIN d.pairs[i].val.items : d.pairs[i].val.items[j] \notin Records

\* The embedded-JSON step of extract_data_from_doubleclick; an exception of
\* the parser is swallowed by the bare `except`.
EmbeddedStep(t, v) ==
    LET r == ParseDatatableJson([wrap |-> "plain", doc |-> t.doc], v)
    IN IF Flat(t.doc) /\ r.status = "df" /\ Len(r.rows) > MinRows
       THEN r ELSE ReturnNone("none")

\* extract_data_from_doubleclick(body, verbose): the direct parse when the
\* body starts with { or [, the JSONP unwrap, the embedded-JSON step; an
\* exception of the first two is caught by `except Exception`.
ExtractDataFromDoubleclick(t, v) ==
    LET starts == t.wrap = "plain" /\ t.doc.kind \in {"object", "array"}
        direct == ParseDatatableJson(t, v)
        inner == ParseDatatableJson([wrap |-> "plain", doc |-> t.doc], v)
    IN IF starts /\ direct.status = "raised" THEN ReturnNone(direct.exc)
       ELSE IF starts /\ direct.status = "df" THEN direct
       ELSE IF t.wrap = "jsonp" /\ inner.status = "raised" THEN ReturnNone(inner.exc)
       ELSE IF t.wrap = "jsonp" /\ inner.status = "df" THEN inner
       ELSE EmbeddedStep(t, v)

InitParse ==
    /\ QueryIdle
    /\ MainIdle
    /\ FullIdle
    /\ LateIdle
    /\ CaptureIdle
    /\ RelevanceIdle
    /\ RequestIdle
    /\ json_data \in Bodies
    /\ verbose \in BOOLEAN
    /\ parsed = ReturnNone("none")
    /\ extracted = ReturnNone("none")
    /\ ppc = "call"

\* The body is given to both functions.
CallParsers ==
    /\ ppc = "call"
    /\ parsed' = ParseDatatableJson(json_data, verbose)
    /\ extracted' = ExtractDataFromDoubleclick(json_data, verbose)
    /\ ppc' = "called"
    /\ UNCHANGED <<query_vars, main_vars, full_vars, late_vars,
                   capture_vars, relevance_vars,
                   request_vars, json_data, verbose>>

\* The caller of parse_datatable_json in the loop over ajax_requests: it
\* goes on with the next request unless an exception reaches it.
NextCandidate ==
    /\ ppc = "called"
    /\ ppc' = IF parsed.status = "raised" \/ extracted.status = "raised"
              THEN "aborted" ELSE "next"
    /\ UNCHANGED <<query_vars, main_vars, full_vars, late_vars,
                   capture_vars, relevance_vars,
                   request_vars, json_data, verbose, parsed, extracted>>

NextParse ==
    \/ CallParsers
    \/ NextCandidate

SpecParse == InitParse /\ [][NextParse]_vars

\* The first key, in document order, whose value is a non-empty list of
\* records (0: there is none).
FirstRecordListKey(d) ==
    LET idx == {i \in DOMAIN d.pairs :
                   /\ d.pairs[i].val.kind = "list"
                   /\ d.pairs[i].val.items # <<>>
                   /\ \A j \in DOMAIN d.pairs[i].val.items : d.pairs[i].val.items[j] \in Records}
    IN IF idx = {} THEN 0 ELSE CHOOSE i \in idx : \A j \in idx : i <= j

\* The body is a JSON object with a list-valued `data` field.
HasDataList(t) ==
    /\ t.wrap = "plain"
    /\ t.doc.kind = "object"
    /\ \E i \in DOMAIN t.doc.pairs :
          t.doc.pairs[i].key = "data" /\ t.doc.pairs[i].val.kind = "list"

\* C18: parser step precedence.  For an object with a list-valued `data`
\* field the rows are the elements of `data` in order; otherwise for an
\* array the rows are its elements in order; otherwise the rows are the
\* value of the first key whose value is a non-empty list of records;
\* otherwise the parse fails.
C18_ParserPrecedence ==
    ppc # "call" =>
       LET d == json_data.doc
           plain == json_data.wrap = "plain"
       IN IF HasDataList(json_data)
          THEN /\ parsed.status = "df"
               /\ \E i \in DOMAIN d.pairs :
                     d.pairs[i].key = "data" /\ parsed.rows = d.pairs[i].val.items
          ELSE IF plain /\ d.kind = "array"
          THEN parsed.status = "df" /\ parsed.rows = d.items
          ELSE IF plain /\ d.kind = "object" /\ FirstRecordListKey(d) # 0
          THEN parsed.status = "df" /\ parsed.rows = d.pairs[FirstRecordListKey(d)].val.items
          ELSE parsed.status = "None"

\* The body is not valid JSON, or is JSON that holds no list.
NoUsableList(t) ==
    \/ t.wrap # "plain"
    \/ t.doc.kind \in {"invalid", "num", "str"}
    \/ t.doc.kind = "object" /\ \A i \in DOMAIN t.doc.pairs : t.doc.pairs[i].val.kind # "list"

\* C20: soft parse failure.  parse_datatable_json and
\* extract_data_from_doubleclick never raise; a body that is not valid JSON,
\* or that is JSON without a usable list, gives None, and the caller goes on
\* with the next candidate.
C20_SoftParseFailure ==
    /\ ppc # "aborted"
    /\ ppc # "call" =>
          /\ parsed.status \in {"df", "None"}
          /\ extracted.status \in {"df", "None"}
          /\ NoUsableList(json_data) => parsed.status = "None"

\* A body on which the parser hits an exception other than a JSON decoding
\* error (a number: `'data' in 5`), returns None, and the caller goes on.
C20_Witness ==
    /\ ppc = "next"
    /\ json_data.doc.kind = "num"
    /\ ~verbose
    /\ parsed.status = "None"
    /\ parsed.exc = "TypeError"

\* C27: verbose-independent parsing.  parse_datatable_json returns the same
\* result with verbose=True as with verbose=False; in particular a JSON
\* array of records is parsed into a table in both modes.
C27_VerboseIndependentParsing ==
    ppc # "call" =>
       LET other == ParseDatatableJson(json_data, ~verbose)
       IN /\ parsed.status = other.status
          /\ parsed.rows = other.rows

\* ------------------------------------------------------------------------
\* A table built from a rendered HTML table: extract_from_current_dom,
\* fallback_html_scraping and the table path of inspect_page_sources
\* (SpecTable)
\* ------------------------------------------------------------------------

HtmlSources == {"extract_from_current_dom", "fallback_html_scraping",
                "inspect_page_sources"}

\* Number of <th> in the <thead> (0: no <thead>, or an empty one).
HeaderCounts == 0..2

\* A run of n consecutive <tr> holding the same number of selected cells.
TrRuns == [cells : 0..MaxCells, n : {1, 50}]

RECURSIVE TrCount(_)
TrCount(rows) ==
    IF rows = <<>> THEN 0 ELSE rows[1].n + TrCount(Tail(rows))

\* `if len(rows) > 50` of inspect_page_sources.
MinTableTrs == 50

\* `if cells:` a <tr> without a selected cell gives no row.
WithCells(rows) == SelectSeq(rows, LAMBDA r : r.cells > 0)

\* The widest row of the data given to pd.DataFrame.
Widest(rows) ==
    CHOOSE w \in {rows[i].cells : i \in DOMAIN rows} :
        \A i \in DOMAIN rows : rows[i].cells <= w

NoFrame == [kind |-> "None", columns |-> 0, rows |-> <<>>]

\* Variant: a constructor that takes any number of column names.
ColumnsAccepted(headers, width) == FALSE

\* pd.DataFrame(rows, columns=headers) raises ValueError when the number of
\* column names differs from the width of the data.
ColumnsRejected(headers, width) == headers # 0 /\ headers # width

\* pd.DataFrame(rows, columns=headers if headers else None): the rows are
\* laid out on as many columns as the widest of them has, a shorter row
\* being filled with None; the exception of a refused list of column names
\* is caught by the caller, which returns None.
PandasFrame(rows, headers) ==
    LET width == Widest(rows)
    IN IF ColumnsRejected(headers, width) THEN NoFrame
       ELSE [kind |-> "df", columns |-> width,
             rows |-> [i \in DOMAIN rows |->
                         [len |-> width, filled |-> rows[i].cells, n |-> rows[i].n]]]

\* The three functions, from the selected <table> to the value returned.
HtmlTable(src, headers, rows) ==
    IF src = "inspect_page_sources" /\ ~(TrCount(rows) > MinTableTrs) THEN NoFrame
    ELSE IF WithCells(rows) = <<>> THEN NoFrame
    ELSE PandasFrame(WithCells(rows), headers)

InitTable ==
    /\ QueryIdle
    /\ MainIdle
    /\ FullIdle
    /\ CaptureIdle /\ RelevanceIdle /\ ParseIdle /\ RequestIdle
    /\ FilterIdle /\ ExportIdle /\ ProbeIdle /\ CleanIdle /\ DiscoveryIdle
    /\ html_src \in HtmlSources
    /\ html_headers \in HeaderCounts
    /\ html_rows \in SeqsUpTo(TrRuns, MaxTrs)
    /\ html_df = NoFrame
    /\ hpc = "call"

outside_table == <<query_vars, main_vars, full_vars, capture_vars, relevance_vars,
                   parse_vars, request_vars, filter_vars, export_vars, probe_vars,
                   clean_vars, discovery_vars>>

\* The call of the function named by html_src.
ReadHtmlTable ==
    /\ hpc = "call"
    /\ html_df' = HtmlTable(html_src, html_headers, html_rows)
    /\ hpc' = "done"
    /\ UNCHANGED <<outside_table, html_src, html_headers, html_rows>>

NextTable == ReadHtmlTable

SpecTable == InitTable /\ [][NextTable]_vars

RANKINGS_FIELDS ==
    [rank |-> "Rank", name |-> "Name", scores_overall |-> "Overall",
     scores_teaching |-> "Teaching", scores_research |-> "Research Environment",
     scores_citations |-> "Research Quality", scores_industry_income |-> "Industry",
     scores_international_outlook |-> "International Outlook"]

KEY_STATISTICS_FIELDS ==
    [rank |-> "Rank", name |-> "Name",
     stats_number_students |-> "No. of FTE students",
     stats_student_staff_ratio |-> "No. of students per staff",
     stats_pc_intl_students |-> "International students",
     stats_female_male_ratio |-> "Female:Male ratio"]

\* JSON values: a string is its sequence of characters, a number its
\* decimal digits; the type is kept beside them.
Str(chars) == [t |-> "str", s |-> chars]
Num(n) == [t |-> "num", s |-> <<ToString(n)>>]

\* Fields of a record of the document, with the values they take here; nid
\* is a field that no mapping names.
RecordKeys == {"rank", "scores_overall", "nid"}
ValuesOf(key) ==
    IF key = "rank" THEN {Str(<<"1">>), Str(<<"=", "2">>), Num(3)}
    ELSE IF key = "scores_overall" THEN {Str(<<"9", "8">>), Str(<<"1", ",", "2">>), Num(0)}
    ELSE {Num(7)}

Universities ==
    UNION {{u \in [ks -> UNION {ValuesOf(key) : key \in RecordKeys}] :
               \A key \in ks : u[key] \in ValuesOf(key)} : ks \in SUBSET RecordKeys}

\* The document returned by fetch_json: None, or a JSON object with its keys
\* and, under 'data', its records.
ApiDocs ==
    {[kind |-> "None", keys |-> {}, data |-> <<>>]}
      \cup [kind : {"dict"}, keys : {{}, {"meta"}}, data : {<<>>}]
      \cup [kind : {"dict"}, keys : {{"data"}, {"data", "meta"}},
            data : SeqsUpTo(Universities, MaxRecords)]

\* `not data`: None or an empty object.
Falsy(data) == data.kind = "None" \/ data.keys = {}

\* university.get(json_field, '')
GetField(university, json_field) ==
    IF json_field \in DOMAIN university THEN university[json_field] ELSE Str(<<>>)

\* Variant: the rank is copied as it is, without an '=' test.
NoRankPrefix(json_field, value) == FALSE

\* json_field == 'rank' and isinstance(value, str) and value.startswith('=')
HasRankPrefix(json_field, value) ==
    /\ json_field = "rank"
    /\ value.t = "str"
    /\ value.s # <<>>
    /\ value.s[1] = "="

\* json_field.startswith('scores_') or json_field == 'stats_student_staff_ratio'
IsNumericField(json_field) ==
    json_field \in {"scores_overall", "scores_teaching", "scores_research",
                    "scores_citations", "scores_industry_income",
                    "scores_international_outlook", "stats_student_staff_ratio"}

\* `if value`: the empty string and the number 0 are falsy.
TruthyValue(value) == value.s # <<>> /\ ~(value.t = "num" /\ value.s = <<"0">>)

\* str(value).replace(',', '') if value else ''
CleanNumeric(value) ==
    IF TruthyValue(value) THEN Str(SelectSeq(value.s, LAMBDA c : c # ",")) ELSE Str(<<>>)

\* The value stored under db_field.
Stored(json_field, value) ==
    IF HasRankPrefix(json_field, value) THEN Str(Tail(value.s))
    ELSE IF IsNumericField(json_field) THEN CleanNumeric(value)
    ELSE value

\* One iteration of `for university in data["data"]`.
FilterUniversity(university, yr, mapping) ==
    LET dbs == {mapping[f] : f \in DOMAIN mapping}
        src(db) == CHOOSE f \in DOMAIN mapping : mapping[f] = db
        prefixed == \E f \in DOMAIN mapping : HasRankPrefix(f, GetField(university, f))
        names == {"year"} \cup dbs \cup (IF prefixed THEN {"rank_prefix"} ELSE {})
    IN [c \in names |->
          IF c = "year" THEN Num(yr)
          ELSE IF c = "rank_prefix" THEN Str(<<"=">>)
          ELSE Stored(src(c), GetField(university, src(c)))]

NoDoc == [kind |-> "None", data |-> <<>>]

\* filter_data_for_db(data, year, field_mapping)
FilterDataForDb(data, yr, mapping) ==
    IF Falsy(data) \/ "data" \notin data.keys THEN NoDoc
    ELSE [kind |-> "dict",
          data |-> [i \in DOMAIN data.data |-> FilterUniversity(data.data[i], yr, mapping)]]

FilterYears == {2011, 2024}

InitFilter ==
    /\ QueryIdle
    /\ MainIdle
    /\ FullIdle
    /\ CaptureIdle /\ RelevanceIdle /\ ParseIdle /\ RequestIdle
    /\ TableIdle /\ ExportIdle /\ ProbeIdle /\ CleanIdle /\ DiscoveryIdle
    /\ api_data \in ApiDocs
    /\ data_year \in FilterYears
    /\ field_mapping \in {RANKINGS_FIELDS, KEY_STATISTICS_FIELDS}
    /\ filtered_data = NoDoc
    /\ fdpc = "call"

outside_filter == <<query_vars, main_vars, full_vars, capture_vars, relevance_vars,
                    parse_vars, request_vars, table_vars, export_vars, probe_vars,
                    clean_vars, discovery_vars>>

\* The call in process_year or process_subject.
CallFilter ==
    /\ fdpc = "call"
    /\ filtered_data' = FilterDataForDb(api_data, data_year, field_mapping)
    /\ fdpc' = "done"
    /\ UNCHANGED <<outside_filter, api_data, data_year, field_mapping>>

NextFilter == CallFilter

SpecFilter == InitFilter /\ [][NextFilter]_vars

\* The rank of an input record begins with '='.
RankBeginsWithEquals(u) ==
    "rank" \in DOMAIN u /\ u["rank"].t = "str" /\ u["rank"].s # <<>> /\ u["rank"].s[1] = "="

ExportYears == {2011, 2024}

\* The name and category arguments of the save_outputs calls of
\* process_year and process_subject, for the subject slug 'law'.
OutputNames ==
    {[name |-> "rankings", category |-> "general"],
     [name |-> "key_statistics", category |-> "general"],
     [name |-> "law_rankings", category |-> "subject"],
     [name |-> "law_key_statistics", category |-> "subject"]}

\* What one save_outputs call is given: the year, the name and category,
\* and the filtered document (rows = -1: None, else the number of records).
OutputUnits == [year : ExportYears, out : OutputNames, rows : {-1, 1, 2}]

\* os.path.join("outputs", "csv", category)
CsvDir(category) == <<"outputs", "csv", category>>

\* f"THE_{year}_{name}.csv" in csv_dir: a file is its directory, the year
\* and the name of its file name, and its number of data rows.
CsvFile(u) == [dir |-> CsvDir(u.out.category), year |-> u.year,
               name |-> u.out.name, rows |-> u.rows]

\* open(csv_path, "w"): a file of the same path is replaced.
Written(files, f) ==
    {g \in files : ~(g.dir = f.dir /\ g.year = f.year /\ g.name = f.name)} \cup {f}

\* The file name ends with _rankings.csv or with _key_statistics.csv (the
\* `*` of the pattern takes the year and, for a subject file, the slug).
NameEndsWith(name, kind) ==
    IF kind = "rankings" THEN name \in {"rankings", "law_rankings"}
    ELSE name \in {"key_statistics", "law_key_statistics"}

\* glob.glob("outputs/csv/THE_*_rankings.csv"): the files of the directory
\* outputs/csv itself whose name matches; `*` does not cross a separator.
Glob(files, kind) ==
    {f \in files : f.dir = <<"outputs", "csv">> /\ NameEndsWith(f.name, kind)}

\* sorted(files): by path, that is by year and then by name.
NameRank(name) ==
    IF name = "key_statistics" THEN 1 ELSE IF name = "law_key_statistics" THEN 2
    ELSE IF name = "law_rankings" THEN 3 ELSE 4

RECURSIVE Sorted(_)
Sorted(files) ==
    IF files = {} THEN <<>>
    ELSE LET f == CHOOSE g \in files :
                    \A h \in files : g.year * 10 + NameRank(g.name)
                                       <= h.year * 10 + NameRank(h.name)
         IN <<f>> \o Sorted(files \ {f})

\* generate_rankings_insert / generate_key_statistics_insert: one INSERT
\* per row of the file, into the table of its kind, with
\* int(csv_file.split('_')[1]) as year.
RECURSIVE Inserts(_, _, _)
Inserts(f, table, n) ==
    IF n <= 0 THEN <<>>
    ELSE <<[table |-> table, year |-> f.year, name |-> f.name, dir |-> f.dir]>>
           \o Inserts(f, table, n - 1)

RECURSIVE InsertsOfAll(_, _)
InsertsOfAll(fs, table) ==
    IF fs = <<>> THEN <<>>
    ELSE Inserts(fs[1], table, fs[1].rows) \o InsertsOfAll(Tail(fs), table)

\* process_csv_files(): the statements after the table creation SQL.
ProcessCsvFiles(files) ==
    InsertsOfAll(Sorted(Glob(files, "rankings")), "Rankings")
      \o InsertsOfAll(Sorted(Glob(files, "key_statistics")), "Key_Statistics")

InitExport ==
    /\ QueryIdle
    /\ MainIdle
    /\ FullIdle
    /\ CaptureIdle /\ RelevanceIdle /\ ParseIdle /\ RequestIdle
    /\ TableIdle /\ FilterIdle /\ ProbeIdle /\ CleanIdle /\ DiscoveryIdle
    /\ out_units \in SeqsUpTo(OutputUnits, MaxUnits)
    /\ out_i = 0
    /\ csv_files = {}
    /\ all_sql = <<>>
    /\ xpc = "save"

outside_export == <<query_vars, main_vars, full_vars, capture_vars, relevance_vars,
                    parse_vars, request_vars, table_vars, filter_vars, probe_vars,
                    clean_vars, discovery_vars>>

\* save_outputs(year, data, name, category): nothing is written for a
\* missing document.
SaveOutputs ==
    /\ xpc = "save"
    /\ out_i < Len(out_units)
    /\ out_i' = out_i + 1
    /\ csv_files' = IF out_units[out_i + 1].rows = -1 THEN csv_files
                    ELSE Written(csv_files, CsvFile(out_units[out_i + 1]))
    /\ UNCHANGED <<outside_export, out_units, all_sql, xpc>>

\* db_insert_generator.main, run after the scraper: process_csv_files.
GenerateInserts ==
    /\ xpc = "save"
    /\ out_i = Len(out_units)
    /\ all_sql' = ProcessCsvFiles(csv_files)
    /\ xpc' = "done"
    /\ UNCHANGED <<outside_export, out_units, out_i, csv_files>>

NextExport ==
    \/ SaveOutputs
    \/ GenerateInserts

SpecExport == InitExport /\ [][NextExport]_vars

\* C26: export hand-over.  Every CSV file written by save_outputs is found
\* by process_csv_files, which produces one INSERT statement per row of it,
\* for the table that matches the file and with the year of its file name.
C26_ExportHandOver ==
    xpc = "done" =>
       \A f \in csv_files :
          LET mine == {j \in DOMAIN all_sql :
                          /\ all_sql[j].dir = f.dir
                          /\ all_sql[j].name = f.name
                          /\ all_sql[j].year = f.year}
          IN /\ Cardinality(mine) = f.rows
             /\ \A j \in mine :
                  all_sql[j].table = (IF NameEndsWith(f.name, "rankings")
                                      THEN "Rankings" ELSE "Key_Statistics")

\* ------------------------------------------------------------------------
\* the_scraper.try_api_patterns, request by request (SpecProbe)
\* ------------------------------------------------------------------------

\* api_patterns, in the order of the list.
ApiPatterns ==
    <<"the_data_rankings/world_university_rankings_{year}_0__a4e9ad63b4b1c96ce07cc370bc9e1f54.json",
      "the_data_rankings/world_university_rankings_{year}.json",
      "api/rankings/{year}/world",
      "api/v1/rankings/{year}",
      "_next/data/rankings/{year}.json">>

\* What a request meets: requests.get raises, or answers with a status and
\* a body on which parse_datatable_json gives None (-1) or a table.
ProbeAnswers ==
    {[kind |-> "raise", status |-> 0, rows |-> -1],
     [kind |-> "response", status |-> 404, rows |-> -1],
     [kind |-> "response", status |-> 200, rows |-> -1],
     [kind |-> "response", status |-> 200, rows |-> 50],
     [kind |-> "response", status |-> 200, rows |-> 51]}

\* `if response.status_code == 200` and `df is not None and len(df) > 50`
Qualifies(a) == a.kind = "response" /\ a.status = 200 /\ a.rows > MinPageRows

\* Variant: an exception of a request ends the probe.
ProbeStepRaiseEnds(a) ==
    IF a.kind = "raise" THEN "abort"
    ELSE IF Qualifies(a) THEN "return" ELSE "continue"

\* One iteration of `for api_url in api_patterns`: `return df` for a table
\* of more than 50 rows; an exception is caught inside the loop, which goes
\* on with the next URL.
ProbeStep(a) ==
    IF a.kind = "raise" THEN "continue"
    ELSE IF Qualifies(a) THEN "return" ELSE "continue"

InitProbe ==
    /\ QueryIdle
    /\ MainIdle
    /\ FullIdle
    /\ CaptureIdle /\ RelevanceIdle /\ ParseIdle /\ RequestIdle
    /\ TableIdle /\ FilterIdle /\ ExportIdle /\ CleanIdle /\ DiscoveryIdle
    /\ probe_answers = <<>>
    /\ probe_i = 0
    /\ requested = <<>>
    /\ probe_df = -1
    /\ bpc = "loop"

outside_probe == <<query_vars, main_vars, full_vars, capture_vars, relevance_vars,
                   parse_vars, request_vars, table_vars, filter_vars, export_vars,
                   clean_vars, discovery_vars>>

\* requests.get(api_url, ...) for the next URL of the list.
ProbeRequest ==
    /\ bpc = "loop"
    /\ probe_i < Len(ApiPatterns)
    /\ \E a \in ProbeAnswers :
         /\ probe_answers' = Append(probe_answers, a)
         /\ requested' = Append(requested, ApiPatterns[probe_i + 1])
         /\ probe_df' = IF ProbeStep(a) = "return" THEN a.rows ELSE probe_df
         /\ bpc' = IF ProbeStep(a) = "return" THEN "returned"
                   ELSE IF ProbeStep(a) = "abort" THEN "none" ELSE bpc
    /\ probe_i' = probe_i + 1
    /\ UNCHANGED outside_probe

\* `return None` after the loop.
ProbeReturnNone ==
    /\ bpc = "loop"
    /\ probe_i = Len(ApiPatterns)
    /\ bpc' = "none"
    /\ UNCHANGED <<outside_probe, probe_answers, probe_i, requested, probe_df>>

NextProbe ==
    \/ ProbeRequest
    \/ ProbeReturnNone

SpecProbe == InitProbe /\ [][NextProbe]_vars

\* C28: probe order.  try_api_patterns requests the candidate URLs in list
\* order and returns the table of the first endpoint that answers 200 with
\* more than 50 rows, requesting none after it; a request that fails or
\* raises does not stop the remaining ones, and None is returned only after
\* every endpoint was tried.
C28_ProbeOrder ==
    /\ Len(requested) <= Len(ApiPatterns)
    /\ \A i \in DOMAIN requested : requested[i] = ApiPatterns[i]
    /\ bpc = "returned" =>
          /\ probe_answers[Len(requested)].status = 200
          /\ probe_answers[Len(requested)].rows > 50
          /\ probe_df = probe_answers[Len(requested)].rows
          /\ \A i \in 1..(Len(requested) - 1) :
                ~(probe_answers[i].status = 200 /\ probe_answers[i].rows > 50)
    /\ bpc = "none" => (probe_df = -1 /\ Len(requested) = 5)
    /\ bpc = "loop" =>
          \A i \in DOMAIN requested :
             ~(probe_answers[i].status = 200 /\ probe_answers[i].rows > 50)

\* The first request raised, the second answered 200 with 50 rows, and the
\* third gave the table that is returned.
C28_Witness ==
    /\ bpc = "returned"
    /\ Len(requested) = 3
    /\ probe_answers[1].kind = "raise"
    /\ probe_answers[2].status = 200
    /\ probe_answers[2].rows = 50
    /\ probe_df = 51

\* ------------------------------------------------------------------------
\* db_insert_generator.clean_value (SpecClean)
\* ------------------------------------------------------------------------

\* Characters of a cell: the quote, the percent sign, the blank, the colon
\* and a letter.
Chars == {"'", "%", " ", ":", "a"}

\* A cell of the data frame: NaN (a missing cell), or a string.
CellValues == {[na |-> TRUE, s |-> <<>>]} \cup [na : {FALSE}, s : SeqsUpTo(Chars, MaxChars)]

\* str.strip()
RECURSIVE Strip(_)
Strip(s) ==
    IF s = <<>> THEN s
    ELSE IF s[1] = " " THEN Strip(Tail(s))
    ELSE IF s[Len(s)] = " " THEN Strip(SubSeq(s, 1, Len(s) - 1))
    ELSE s

\* if value_str.endswith('%'): value_str = value_str[:-1]
RemovePercent(s) ==
    IF s # <<>> /\ s[Len(s)] = "%" THEN SubSeq(s, 1, Len(s) - 1) ELSE s

\* value_str.replace(' : ', '/')
RECURSIVE ReplaceRatio(_)
ReplaceRatio(s) ==
    IF s = <<>> THEN s
    ELSE IF Len(s) >= 3 /\ SubSeq(s, 1, 3) = <<" ", ":", " ">>
         THEN <<"/">> \o ReplaceRatio(SubSeq(s, 4, Len(s)))
    ELSE <<s[1]>> \o ReplaceRatio(Tail(s))

\* value_str.replace("'", "''")
RECURSIVE EscapeQuotes(_)
EscapeQuotes(s) ==
    IF s = <<>> THEN s
    ELSE IF s[1] = "'" THEN <<"'", "'">> \o EscapeQuotes(Tail(s))
    ELSE <<s[1]>> \o EscapeQuotes(Tail(s))

NULL == <<"N", "U", "L", "L">>

\* Variant: the cleaned value is quoted without the escaping step.
CleanValueUnescaped(value) ==
    IF value.na \/ value.s = <<>> THEN NULL
    ELSE <<"'">> \o ReplaceRatio(RemovePercent(Strip(value.s))) \o <<"'">>

\* clean_value(value)
CleanValue(value) ==
    IF value.na \/ value.s = <<>> THEN NULL
    ELSE <<"'">> \o EscapeQuotes(ReplaceRatio(RemovePercent(Strip(value.s)))) \o <<"'">>

InitClean ==
    /\ QueryIdle
    /\ MainIdle
    /\ FullIdle
    /\ CaptureIdle /\ RelevanceIdle /\ ParseIdle /\ RequestIdle
    /\ TableIdle /\ FilterIdle /\ ExportIdle /\ ProbeIdle /\ DiscoveryIdle
    /\ raw_value \in CellValues
    /\ sql_value = <<>>
    /\ vpc = "call"

outside_clean == <<query_vars, main_vars, full_vars, capture_vars, relevance_vars,
                   parse_vars, request_vars, table_vars, filter_vars, export_vars,
                   probe_vars, discovery_vars>>

\* One clean_value(row.get(...)) of generate_rankings_insert.
CallCleanValue ==
    /\ vpc = "call"
    /\ sql_value' = CleanValue(raw_value)
    /\ vpc' = "done"
    /\ UNCHANGED <<outside_clean, raw_value>>

NextClean == CallCleanValue

SpecClean == InitClean /\ [][NextClean]_vars

\* Every quote of s stands in a pair of adjacent quotes.
RECURSIVE QuotesPaired(_)
QuotesPaired(s) ==
    IF s = <<>> THEN TRUE
    ELSE IF s[1] = "'"
         THEN Len(s) >= 2 /\ s[2] = "'" /\ QuotesPaired(SubSeq(s, 3, Len(s)))
    ELSE QuotesPaired(Tail(s))

\* s with each pair of quotes read as one quote.
RECURSIVE Undoubled(_)
Undoubled(s) ==
    IF s = <<>> THEN s
    ELSE IF s[1] = "'" /\ Len(s) >= 2 /\ s[2] = "'"
         THEN <<"'">> \o Undoubled(SubSeq(s, 3, Len(s)))
    ELSE <<s[1]>> \o Undoubled(Tail(s))

\* C29: clean_value SQL literal safety.  The result of clean_value is either
\* the bare word NULL (for a missing or empty value) or a single-quoted
\* literal in which every single quote of the cleaned value (stripped,
\* trailing '%' removed, ' : ' replaced by '/') is doubled.
C29_SqlLiteralSafety ==
    vpc = "done" =>
       IF raw_value.na \/ raw_value.s = <<>>
       THEN sql_value = NULL
       ELSE /\ Len(sql_value) >= 2
            /\ sql_value[1] = "'"
            /\ sql_value[Len(sql_value)] = "'"
            /\ LET inner == SubSeq(sql_value, 2, Len(sql_value) - 1)
               IN /\ QuotesPaired(inner)
                  /\ Undoubled(inner) = ReplaceRatio(RemovePercent(Strip(raw_value.s)))

\* The value ' : ' between two quotes became the literal made of a doubled
\* quote, a slash and a doubled quote, inside quotes.
C29_Witness ==
    /\ vpc = "done"
    /\ raw_value.s = <<"'", " ", ":", " ", "'">>
    /\ sql_value = <<"'", "'", "'", "/", "'", "'", "'">>

\* ------------------------------------------------------------------------
\* api_discovery_test.THEAPIDiscovery.run_full_discovery (SpecDiscovery)
\* ------------------------------------------------------------------------

\* What test_endpoint returns for an endpoint: (False, None), (True, data)
\* with data that _is_ranking_data refuses, (True, data) with ranking data.
TestOutcomes == {"failed", "json", "ranking"}

\* The outcomes of the endpoints a phase tests, in order.
PhaseOutcomes == UNION {[1..k -> TestOutcomes] : k \in 1..MaxProbes}

\* discover_rest_apis, discover_graphql_apis: the (url, data) pairs of the
\* endpoints with `success and self._is_ranking_data(data)`.
RECURSIVE WorkingApis(_, _)
WorkingApis(outs, i) ==
    IF i > Len(outs) THEN <<>>
    ELSE (IF outs[i] = "ranking" THEN <<[url |-> i, data |-> "ranking"]>> ELSE <<>>)
           \o WorkingApis(outs, i + 1)

\* analyze_page_source: the endpoints tested with success, or the single
\* endpoint with ranking data as soon as one is met.
RECURSIVE TestedEndpoints(_, _, _)
TestedEndpoints(outs, i, tested) ==
    IF i > Len(outs) THEN tested
    ELSE IF outs[i] = "ranking" THEN <<i>>
    ELSE TestedEndpoints(outs, i + 1,
                         IF outs[i] = "json" THEN Append(tested, i) ELSE tested)

\* A test of the phase met ranking data.
MetRanking(outs) == \E i \in DOMAIN outs : outs[i] = "ranking"

\* results['summary'] of run_full_discovery.
Summary(rest, graphql, page) ==
    LET all_working_apis ==
            rest \o graphql \o [i \in DOMAIN page |-> [url |-> page[i], data |-> "None"]]
        with_data == SelectSeq(all_working_apis, LAMBDA api : api.data # "None")
    IN [total_endpoints_tested |-> Len(all_working_apis),
        working_apis_found |-> Len(with_data),
        ranking_data_found |-> \E i \in DOMAIN with_data : with_data[i].data = "ranking"]

InitDiscovery ==
    /\ QueryIdle
    /\ MainIdle
    /\ FullIdle
    /\ CaptureIdle /\ RelevanceIdle /\ ParseIdle /\ RequestIdle
    /\ TableIdle /\ FilterIdle /\ ExportIdle /\ ProbeIdle /\ CleanIdle
    /\ rest_apis = <<>>
    /\ graphql_apis = <<>>
    /\ page_source_apis = <<>>
    /\ summary = <<>>
    /\ detected = FALSE
    /\ working = 0
    /\ dpc = "rest"

outside_discovery == <<query_vars, main_vars, full_vars, capture_vars, relevance_vars,
                       parse_vars, request_vars, table_vars, filter_vars, export_vars,
                       probe_vars, clean_vars>>

\* Phase 1: results['rest_apis'] = self.discover_rest_apis()
DiscoverRestApis ==
    /\ dpc = "rest"
    /\ \E outs \in PhaseOutcomes :
         /\ rest_apis' = WorkingApis(outs, 1)
         /\ detected' = (detected \/ MetRanking(outs))
         /\ working' = working + Len(WorkingApis(outs, 1))
    /\ dpc' = "graphql"
    /\ UNCHANGED <<outside_discovery, graphql_apis, page_source_apis, summary>>

\* Phase 2: results['graphql_apis'] = self.discover_graphql_apis()
DiscoverGraphqlApis ==
    /\ dpc = "graphql"
    /\ \E outs \in PhaseOutcomes :
         /\ graphql_apis' = WorkingApis(outs, 1)
         /\ detected' = (detected \/ MetRanking(outs))
         /\ working' = working + Len(WorkingApis(outs, 1))
    /\ dpc' = "page_source"
    /\ UNCHANGED <<outside_discovery, rest_apis, page_source_apis, summary>>

\* Phase 3: results['page_source_apis'] = self.analyze_page_source(); the
\* page that cannot be loaded, or an exception, gives the empty list.
AnalyzePageSource ==
    /\ dpc = "page_source"
    /\ \E loaded \in BOOLEAN, outs \in PhaseOutcomes :
         LET tested == IF loaded THEN TestedEndpoints(outs, 1, <<>>) ELSE <<>>
         IN /\ page_source_apis' = tested
            /\ detected' = (detected \/ (loaded /\ MetRanking(outs)))
            /\ working' = working + Len(tested)
    /\ dpc' = "summary"
    /\ UNCHANGED <<outside_discovery, rest_apis, graphql_apis, summary>>

\* The summary, and `return results`.
Summarize ==
    /\ dpc = "summary"
    /\ summary' = Summary(rest_apis, graphql_apis, page_source_apis)
    /\ dpc' = "done"
    /\ UNCHANGED <<outside_discovery, rest_apis, graphql_apis, page_source_apis,
                   detected, working>>

NextDiscovery ==
    \/ DiscoverRestApis
    \/ DiscoverGraphqlApis
    \/ AnalyzePageSource
    \/ Summarize

SpecDiscovery == InitDiscovery /\ [][NextDiscovery]_vars

\* C30: discovery summary consistency.  summary['ranking_data_found'] is
\* true whenever any phase detected ranking data, and
\* summary['working_apis_found'] counts every endpoint reported working by
\* any of the three phases.
C30_SummaryConsistency ==
    dpc = "done" =>
       /\ detected => summary.ranking_data_found
       /\ summary.working_apis_found = working
       /\ working = Len(rest_apis) + Len(graphql_apis) + Len(page_source_apis)
====
